---------------------------- MODULE Spec2Model ----------------------------
(***************************************************************************)
(* The recursive discovery engine of unreal_dissection: the worklist       *)
(* DiscoverySystem (discovery/system.py), the discoveries and their        *)
(* comparison (discovery/core.py, function.py, string.py, struct.py), the  *)
(* three function parsers (ue/functions.py) over the cached-call           *)
(* disassembly (dissassembly.py) and the explorers (ue/explorer).          *)
(*                                                                         *)
(* An image is a map from RVA to a cell: what the bytes at that RVA look   *)
(* like to each parser (code view, string view, record view).  Names that  *)
(* the sources spell two ways (parse_ZConstruct / parse_ZConstruct_fn,     *)
(* UnexpectedInstruction / UnexpectedInstructionError, perform(image) /    *)
(* perform(image, ctx)) are read as the one thing they refer to.           *)
(***************************************************************************)
EXTENDS Integers, Sequences, FiniteSets, TLC

\* ------------------------------------------------------------ bounds
MaxRva == 3
MaxSeeds == 2

\* ------------------------------------------------- program constants
\* queue() drops these two pointer values; 0xFFFFFFFFFFFFFFFF is written
\* as the 64-bit two's complement value -1.
NULL_PTR == 0
ALL_ONES == -1
\* parse_ZConstructOrStaticClass dispatches on these argument counts
ZCONSTRUCT_ARGS == 2
STATICCLASS_ARGS == 14

Rvas == 1..MaxRva

\* The element of a singleton.  One({F(v) : v \in {x}}) is F(x) with x
\* evaluated once and bound to v.
One(S) == CHOOSE y \in S : TRUE

ZConstructFnType == {"Package", "Function", "Enum", "Struct", "Class"}

\* ue/explorer/functions.py ENUM_TO_STRUCT
ENUM_TO_STRUCT(kind) ==
    CASE kind = "Package"  -> "FPackageParams"
      [] kind = "Class"    -> "FClassParams"
      [] kind = "Struct"   -> "FStructParams"
      [] kind = "Enum"     -> "FEnumParams"
      [] kind = "Function" -> "FFunctionParams"

\* The addresses of the five UECodeGen_Private::ConstructXXX functions and
\* of GetPrivateStaticClassBody in the modelled images: code that is
\* called, never parsed.
CalleeAddr(name) ==
    CASE name = "Package"  -> 101
      [] name = "Class"    -> 102
      [] name = "Struct"   -> 103
      [] name = "Enum"     -> 104
      [] name = "Function" -> 105
      [] name = "GetPrivateStaticClassBody" -> 110
      [] OTHER -> 199

\* ------------------------------------------------------ discoveries
\* Discovery(ptr); cls is the concrete class, arg the struct_type or the
\* parser_fn, info the hint (compare=False field of FunctionDiscovery).
Utf8Discovery(ptr)  == [ptr |-> ptr, cls |-> "Utf8Discovery",  arg |-> "", info |-> "None"]
Utf16Discovery(ptr) == [ptr |-> ptr, cls |-> "Utf16Discovery", arg |-> "", info |-> "None"]
StructDiscovery(ptr, struct_type) ==
    [ptr |-> ptr, cls |-> "StructDiscovery", arg |-> struct_type, info |-> "None"]
FunctionDiscovery(ptr, parser_fn, info) ==
    [ptr |-> ptr, cls |-> "FunctionDiscovery", arg |-> parser_fn, info |-> info]
ZConstructFunctionDiscovery(ptr, info) == FunctionDiscovery(ptr, "parse_ZConstruct", info)

\* Discovery.compare: same concrete class and equal fields -> Keep
Discovery_compare(self, previous) ==
    IF self.cls # previous.cls THEN "NoMatch"
    ELSE IF self.ptr # previous.ptr \/ self.arg # previous.arg THEN "NoMatch"
    ELSE "Keep"

FunctionDiscovery_compare_NoReplace(self, previous) ==
    IF previous.cls # "FunctionDiscovery" THEN "NoMatch"
    ELSE IF self.arg # previous.arg THEN "NoMatch"
    ELSE IF self.info = "None" \/ previous.info = "None" THEN "Keep"
    ELSE IF self.info # previous.info THEN "NoMatch"
    ELSE "Keep"

\* FunctionDiscovery.compare
FunctionDiscovery_compare(self, previous) ==
    IF previous.cls # "FunctionDiscovery" THEN "NoMatch"
    ELSE IF self.arg # previous.arg THEN "NoMatch"
    ELSE IF self.info # "None" /\ previous.info = "None" THEN "Replace"
    ELSE IF self.info = "None" THEN "Keep"
    ELSE IF self.info # previous.info THEN "NoMatch"
    ELSE "Keep"

\* discovery.compare(pending): dispatch on the class of self
Compare(self, previous) ==
    IF self.cls = "FunctionDiscovery"
    THEN FunctionDiscovery_compare(self, previous)
    ELSE Discovery_compare(self, previous)

\* -------------------------------------------------- DiscoverySystem
\* pending is a dict: a sequence of discoveries in insertion order, at
\* most one per ptr.  The RVA-keyed indices are functions on their keys.
EmptyMap == [x \in {} |-> 0]

NewSystem ==
    [pending |-> <<>>,
     found |-> EmptyMap,
     found_trampolines |-> EmptyMap,
     found_strings |-> EmptyMap,
     found_structs |-> EmptyMap,
     found_structs_by_type |-> EmptyMap,
     found_structs_by_type_and_ptr |-> EmptyMap,
     found_functions |-> EmptyMap,
     found_functions_by_type |-> EmptyMap,
     found_functions_by_type_and_ptr |-> EmptyMap]

PendingPtrs(pending) == {pending[i].ptr : i \in 1..Len(pending)}
PendingIndex(pending, ptr) == CHOOSE i \in 1..Len(pending) : pending[i].ptr = ptr
PendingDel_Keep(pending, ptr) == pending
\* del self.pending[ptr]
PendingDel(pending, ptr) ==
    LET i == PendingIndex(pending, ptr)
    IN  SubSeq(pending, 1, i - 1) \o SubSeq(pending, i + 1, Len(pending))

IsDroppedPtr_NoCheck(ptr) == FALSE
\* queue(): if discovery.ptr == 0 or discovery.ptr == 0xFFFFFFFFFFFFFFFF
IsDroppedPtr(ptr) == ptr = NULL_PTR \/ ptr = ALL_ONES

AlreadyFound_NoCheck(s, ptr) == FALSE
\* queue(): if discovery.ptr in self.found
AlreadyFound(s, ptr) == ptr \in DOMAIN s.found

QueuePending_Overwrite(s, discovery) ==
    IF discovery.ptr \in PendingPtrs(s.pending)
    THEN [sys |-> [s EXCEPT !.pending[PendingIndex(s.pending, discovery.ptr)] = discovery],
          exc |-> "None"]
    ELSE [sys |-> [s EXCEPT !.pending = Append(s.pending, discovery)], exc |-> "None"]

\* queue(), lines 83-101: reconcile with a pending discovery at the same ptr
QueuePending(s, discovery) ==
    IF discovery.ptr \in PendingPtrs(s.pending)
    THEN LET i == PendingIndex(s.pending, discovery.ptr)
             Reconcile(c) ==
                 CASE c = "NoMatch" -> [sys |-> s, exc |-> "ValueError:Conflict"]
                   [] c = "Replace" -> [sys |-> [s EXCEPT !.pending[i] = discovery], exc |-> "None"]
                   [] c = "Keep"    -> [sys |-> s, exc |-> "None"]
         IN  One({Reconcile(v) : v \in {Compare(discovery, s.pending[i])}})
    ELSE [sys |-> [s EXCEPT !.pending = Append(s.pending, discovery)], exc |-> "None"]

\* DiscoverySystem.queue: the system after the call and what it raised
Queue(s, discovery) ==
    IF IsDroppedPtr(discovery.ptr) THEN [sys |-> s, exc |-> "None"]
    ELSE IF AlreadyFound(s, discovery.ptr) THEN [sys |-> s, exc |-> "None"]
    ELSE QueuePending(s, discovery)

\* for discovery in ...: self.queue(discovery), stopping at the first raise;
\* calls is the set of discoveries queue was called with
RECURSIVE QueueAll(_, _, _)
QueueAll(s, discoveries, calls) ==
    IF discoveries = <<>> THEN [sys |-> s, exc |-> "None", calls |-> calls]
    ELSE LET seen == calls \cup {Head(discoveries)}
             Queued(r) ==
                 IF r.exc # "None" THEN [sys |-> r.sys, exc |-> r.exc, calls |-> seen]
                 ELSE QueueAll(r.sys, Tail(discoveries), seen)
         IN  One({Queued(v) : v \in {Queue(s, Head(discoveries))}})

\* ------------------------------------------------------------ image
\* A cell is what the bytes at one RVA are to each reader.
\*   seed       : whether the bytes match Z_CONSTRUCT_RE (the pattern sweep);
\*   code view  : jmp (target of a JMP rel32 there, 0 if none), then the
\*                stages of parse_cached_call: prelude, first instruction
\*                after it (MOV / CMP / CALL=redirect / other), skeleton,
\*                marshal (gather_call_params), epilogue, and what a
\*                successful parse returns (cache_addr, called_fn_addr,
\*                parameters);
\*   string view: whether utf8zt / utf16zt succeeds there;
\*   record view: the field values a record parser reads there, in
\*                declared order (words), also the u64s of ptr_array;
\*   callee view: whether get_fn_stack_size succeeds there (stack);
\*   params view: the params record types that parse there and pass their
\*                validator (valid).
Cell(seed, jmp, prelude, first, redirect, skeleton, marshal, epilogue, called_fn_addr, parameters, utf8, utf16, words) ==
    [seed |-> seed, jmp |-> jmp, prelude |-> prelude, first |-> first, redirect |-> redirect,
     skeleton |-> skeleton, marshal |-> marshal, epilogue |-> epilogue,
     cache_addr |-> 0, called_fn_addr |-> called_fn_addr, parameters |-> parameters,
     utf8 |-> utf8, utf16 |-> utf16, words |-> words,
     stack |-> "ok", valid |-> {}]

\* image.get_stream(rva): ValueError unless the RVA lies in a section
InImage(im, rva) == rva \in DOMAIN im

\* the i-th field read at a cell (bytes past the written ones read as 0)
Word(cell, i) == IF i \in 1..Len(cell.words) THEN cell.words[i] ELSE 0

\* ---------------------------------------------------------- artefacts
Artefact(cls, start_addr) ==
    [cls |-> cls, start_addr |-> start_addr, fn_type |-> "", struct_type |-> "",
     encoding |-> "", called_method_type |-> "", called_fn_addr |-> 0,
     data |-> <<>>, target |-> <<>>]

StringArtefact(start, encoding) ==
    [Artefact("StringArtefact", start) EXCEPT !.encoding = encoding]
StructArtefact(start, struct_type, struct) ==
    [Artefact("StructArtefact", start) EXCEPT !.struct_type = struct_type, !.data = struct]
UnparsableFunctionArtefact(start, fn_type) ==
    [Artefact("UnparsableFunctionArtefact", start) EXCEPT !.fn_type = fn_type]
\* StaticClassFnArtefact(start, end, parse_StaticClass, *parsed.parameters)
StaticClassFnArtefact(start, called_fn_addr, parameters) ==
    [Artefact("StaticClassFnArtefact", start) EXCEPT
        !.fn_type = "parse_StaticClass", !.called_fn_addr = called_fn_addr,
        !.data = parameters]
\* ZConstructFnArtefact(start, end, parse_ZConstruct, kind, called_fn_addr, *parameters)
ZConstructFnArtefact(start, kind, called_fn_addr, parameters) ==
    [Artefact("ZConstructFnArtefact", start) EXCEPT
        !.fn_type = "parse_ZConstruct", !.called_method_type = kind,
        !.called_fn_addr = called_fn_addr, !.data = parameters]
TrampolineArtefact(jmp, artefact) ==
    [Artefact("TrampolineArtefact", jmp) EXCEPT !.target = <<artefact>>]

IsFunctionArtefact(a) ==
    a.cls \in {"UnparsableFunctionArtefact", "StaticClassFnArtefact", "ZConstructFnArtefact"}

\* ------------------------------------------------------ disassembly
\* parse_trampolines: follow JMP rel32 while there is one; jumps are the
\* addresses of the jump instructions.  A chain that returns to one of its
\* own jumps keeps appending to the list of jumps until allocation fails
\* (MemoryError).  code.jump outside the stream raises ValueError.
RECURSIVE parse_trampolines(_, _, _)
parse_trampolines(im, addr, jumps) ==
    IF ~InImage(im, addr) THEN [exc |-> "ValueError:OutsideStream", jumps |-> jumps, addr |-> addr]
    ELSE IF im[addr].jmp = 0 THEN [exc |-> "None", jumps |-> jumps, addr |-> addr]
    ELSE IF \E i \in 1..Len(jumps) : jumps[i] = addr
         THEN [exc |-> "MemoryError", jumps |-> jumps, addr |-> addr]
    ELSE parse_trampolines(im, im[addr].jmp, Append(jumps, addr))

\* parse_cached_call: prelude, cache apparatus (or a redirecting CALL, which
\* re-enters at its target), argument marshalling, epilogue.  depth counts
\* the redirects; a redirect cycle ends in Python's RecursionError.
RECURSIVE parse_cached_call(_, _, _)
parse_cached_call(im, addr, depth) ==
    LET c == im[addr]
        fail(e) == [exc |-> e, cache_addr |-> 0, called_fn_addr |-> 0, parameters |-> <<>>]
    IN  IF c.prelude # "ok" THEN fail(c.prelude)
        ELSE IF c.first = "CALL"
             THEN IF depth > Cardinality(DOMAIN im) THEN fail("RecursionError")
                  ELSE IF ~InImage(im, c.redirect) THEN fail("ValueError:OutsideStream")
                  ELSE parse_cached_call(im, c.redirect, depth + 1)
        ELSE IF c.first \notin {"MOV", "CMP"} THEN fail("AssertionError")
        ELSE IF c.skeleton # "ok" THEN fail(c.skeleton)
        ELSE IF c.marshal # "ok" THEN fail(c.marshal)
        ELSE IF c.epilogue \notin {"ok", "other"} THEN fail(c.epilogue)
        ELSE [exc |-> "None", cache_addr |-> c.cache_addr,
              called_fn_addr |-> c.called_fn_addr, parameters |-> c.parameters]

\* ---------------------------------------------------------- parsers
\* The seed index: the module-level caches of ue/z_construct.py.
\* env = [image, cache_by_fn_addr, cache_by_called_fn_addr]
Lookup(cache, addr) == IF addr \in DOMAIN cache THEN cache[addr] ELSE "None"
lookup_struct_type_by_fn_addr(env, addr) == Lookup(env.cache_by_fn_addr, addr)
lookup_construct_fn_type(env, addr) == Lookup(env.cache_by_called_fn_addr, addr)

\* yield from (TrampolineArtefact(jmp, jmp+5, artefact) for jmp in jumps); yield artefact
Yielded(jumps, artefact) ==
    [i \in 1..Len(jumps) |-> TrampolineArtefact(jumps[i], artefact)] \o <<artefact>>

Raises(e) == [exc |-> e, things |-> <<>>]
Yields(things) == [exc |-> "None", things |-> things]

\* parse_StaticClass: nothing is caught; a parameter count other than 14
\* makes the StaticClassFnArtefact constructor raise TypeError.
parse_StaticClass(env, ptr, info) ==
    LET Body(t, parsed) ==
            IF parsed.exc # "None" THEN Raises(parsed.exc)
            ELSE IF Len(parsed.parameters) # STATICCLASS_ARGS THEN Raises("TypeError")
            ELSE Yields(Yielded(t.jumps,
                     StaticClassFnArtefact(t.addr, parsed.called_fn_addr, parsed.parameters)))
        Jumped(t) ==
            IF t.exc # "None" THEN Raises(t.exc)
            ELSE LET Parsed(parsed) == Body(t, parsed)
                 IN  One({Parsed(v) : v \in {parse_cached_call(env.image, t.addr, 0)}})
    IN  One({Jumped(v) : v \in {parse_trampolines(env.image, ptr, <<>>)}})

\* parse_ZConstruct: AssertionError and UnexpectedInstruction are caught;
\* the kind cross-checks raise ValueError; the constructor takes exactly
\* two parameters (cache_ptr, params_struct_ptr), else TypeError.
parse_ZConstruct(env, ptr, info) ==
    LET Artefact_(start_addr, parsed, known_type, called_fn_type) ==
            IF parsed.exc \in {"AssertionError", "UnexpectedInstruction"}
            THEN [exc |-> "None", artefact |-> UnparsableFunctionArtefact(start_addr, "parse_ZConstruct")]
            ELSE IF known_type = "None" \/ called_fn_type = "None"
            THEN [exc |-> "None", artefact |-> UnparsableFunctionArtefact(start_addr, "parse_ZConstruct")]
            ELSE IF known_type # called_fn_type THEN [exc |-> "ValueError:KindMismatch"]
            ELSE IF known_type # info THEN [exc |-> "ValueError:KindMismatch"]
            ELSE IF Len(parsed.parameters) # ZCONSTRUCT_ARGS THEN [exc |-> "TypeError"]
            ELSE [exc |-> "None",
                  artefact |-> ZConstructFnArtefact(start_addr, known_type,
                                                    parsed.called_fn_addr, parsed.parameters)]
        Result_(t, a) ==
            IF a.exc # "None" THEN Raises(a.exc) ELSE Yields(Yielded(t.jumps, a.artefact))
        Body(t, parsed) ==
            IF parsed.exc \notin {"None", "AssertionError", "UnexpectedInstruction"}
            THEN Raises(parsed.exc)
            ELSE LET Made(a) == Result_(t, a)
                 IN  One({Made(v) : v \in {Artefact_(t.addr, parsed,
                                           lookup_struct_type_by_fn_addr(env, t.addr),
                                           lookup_construct_fn_type(env, parsed.called_fn_addr))}})
        Jumped(t) ==
            IF t.exc # "None" THEN Raises(t.exc)
            ELSE LET Parsed(parsed) == Body(t, parsed)
                 IN  One({Parsed(v) : v \in {parse_cached_call(env.image, t.addr, 0)}})
    IN  One({Jumped(v) : v \in {parse_trampolines(env.image, ptr, <<>>)}})

generate_artefact_for_ZConstruct_NoKindCheck(env, parsed, start_addr) ==
    LET Generate(struct_type, called_fn_type) ==
            IF struct_type = "None" THEN [exc |-> "None", artefact |-> <<>>]
            ELSE IF called_fn_type = "None" THEN [exc |-> "None", artefact |-> <<>>]
            ELSE [exc |-> "None",
                  artefact |-> <<ZConstructFnArtefact(start_addr, struct_type,
                                                      parsed.called_fn_addr, parsed.parameters)>>]
    IN  Generate(lookup_struct_type_by_fn_addr(env, start_addr),
                 lookup_construct_fn_type(env, parsed.called_fn_addr))

\* _generate_artefact_for_ZConstruct: the artefact, <<>> for None, or a raise
generate_artefact_for_ZConstruct(env, parsed, start_addr) ==
    LET Generate(struct_type, called_fn_type) ==
            IF struct_type = "None" THEN [exc |-> "None", artefact |-> <<>>]
            ELSE IF called_fn_type = "None" THEN [exc |-> "None", artefact |-> <<>>]
            ELSE IF struct_type # called_fn_type
                 THEN [exc |-> "ValueError:KindMismatch", artefact |-> <<>>]
            ELSE [exc |-> "None",
                  artefact |-> <<ZConstructFnArtefact(start_addr, struct_type,
                                                      parsed.called_fn_addr, parsed.parameters)>>]
    IN  Generate(lookup_struct_type_by_fn_addr(env, start_addr),
                 lookup_construct_fn_type(env, parsed.called_fn_addr))

\* parse_ZConstructOrStaticClass: dispatch on the number of arguments
parse_ZConstructOrStaticClass(env, ptr, info) ==
    LET OrUnparsable(start_addr, z) ==
            IF z.exc # "None" THEN z
            ELSE IF z.artefact = <<>>
                 THEN [exc |-> "None",
                       artefact |-> <<UnparsableFunctionArtefact(start_addr, "parse_ZConstructOrStaticClass")>>]
            ELSE z
        Artefact_(start_addr, parsed) ==
            IF parsed.exc \in {"AssertionError", "UnexpectedInstruction"}
            THEN OrUnparsable(start_addr, [exc |-> "None", artefact |-> <<>>])
            ELSE IF Len(parsed.parameters) = ZCONSTRUCT_ARGS
            THEN LET Generated(z) == OrUnparsable(start_addr, z)
                 IN  One({Generated(v) : v \in {generate_artefact_for_ZConstruct(env, parsed, start_addr)}})
            ELSE IF Len(parsed.parameters) = STATICCLASS_ARGS
            THEN [exc |-> "None",
                  artefact |-> <<StaticClassFnArtefact(start_addr, parsed.called_fn_addr,
                                                       parsed.parameters)>>]
            ELSE OrUnparsable(start_addr, [exc |-> "None", artefact |-> <<>>])
        Result_(t, a) ==
            IF a.exc # "None" THEN Raises(a.exc) ELSE Yields(Yielded(t.jumps, a.artefact[1]))
        Body(t, parsed) ==
            IF parsed.exc \notin {"None", "AssertionError", "UnexpectedInstruction"}
            THEN Raises(parsed.exc)
            ELSE LET Made(a) == Result_(t, a)
                 IN  One({Made(v) : v \in {Artefact_(t.addr, parsed)}})
        Jumped(t) ==
            IF t.exc # "None" THEN Raises(t.exc)
            ELSE LET Parsed(parsed) == Body(t, parsed)
                 IN  One({Parsed(v) : v \in {parse_cached_call(env.image, t.addr, 0)}})
    IN  One({Jumped(v) : v \in {parse_trampolines(env.image, ptr, <<>>)}})

\* FunctionDiscovery.perform: yield from self.parser_fn(code, ctx, self.info)
FunctionDiscovery_perform(env, d) ==
    CASE d.arg = "parse_StaticClass" -> parse_StaticClass(env, d.ptr, d.info)
      [] d.arg = "parse_ZConstruct" -> parse_ZConstruct(env, d.ptr, d.info)
      [] d.arg = "parse_ZConstructOrStaticClass" -> parse_ZConstructOrStaticClass(env, d.ptr, d.info)

\* Utf8Discovery.perform / Utf16Discovery.perform: utf8zt() / utf16zt() raise
\* ValueError on a missing terminator or a disallowed character
StringDiscovery_perform(env, d) ==
    LET Read(enc, res) ==
            IF res # "ok" THEN Raises(res) ELSE Yields(<<StringArtefact(d.ptr, enc)>>)
    IN  IF d.cls = "Utf8Discovery" THEN Read("utf-8", env.image[d.ptr].utf8)
        ELSE Read("utf-16", env.image[d.ptr].utf16)

\* StructDiscovery.perform: struct_from_stream reads the fields in declared order
StructDiscovery_perform(env, d) ==
    Yields(<<StructArtefact(d.ptr, d.arg, env.image[d.ptr].words)>>)

\* discovery.perform(image, ctx); get_stream raises outside every section
Perform(env, d) ==
    IF ~InImage(env.image, d.ptr) THEN Raises("ValueError:NotInSection")
    ELSE CASE d.cls = "FunctionDiscovery" -> FunctionDiscovery_perform(env, d)
           [] d.cls = "StructDiscovery" -> StructDiscovery_perform(env, d)
           [] OTHER -> StringDiscovery_perform(env, d)

\* -------------------------------------------------------- explorers
\* An explorer is a generator: what it yields before it raises is queued.
Found(discoveries) == [exc |-> "None", discoveries |-> discoveries]
Then(a, b) ==
    IF a.exc # "None" THEN a
    ELSE [exc |-> b.exc, discoveries |-> a.discoveries \o b.discoveries]

\* the i-th field of a parsed record, in declared order
Field(struct, i) == IF i \in 1..Len(struct) THEN struct[i] ELSE 0

Tolerant(ptr) == FunctionDiscovery(ptr, "parse_ZConstructOrStaticClass", "None")

PropertyDiscovery(ptr) == StructDiscovery(ptr, "PropertyParams")

\* image.get_stream(ptr).ptr_array(count), each pointer mapped to a discovery
\* of the kind the caller makes of it
PtrArrayOf(env, ptr, count, kind) ==
    IF ptr = 0 THEN Found(<<>>)
    ELSE IF ~InImage(env.image, ptr) THEN [exc |-> "ValueError:NotInSection", discoveries |-> <<>>]
    ELSE Found([i \in 1..(IF count > 0 THEN count ELSE 0) |->
                   IF kind = "PropertyParams" THEN PropertyDiscovery(Word(env.image[ptr], i))
                   ELSE Tolerant(Word(env.image[ptr], i))])

\* for i in range(count): StructDiscovery(base + struct_size * i, T); one
\* cell holds one record, so element i lies i cells after the base
StructArrayOf(base, count, struct_type) ==
    IF base = 0 THEN Found(<<>>)
    ELSE Found([i \in 1..(IF count > 0 THEN count ELSE 0) |-> StructDiscovery(base + (i - 1), struct_type)])

explore_FPackageParams(env, st) ==
    Then(Found(<<Utf8Discovery(Field(st, 1))>>),
         PtrArrayOf(env, Field(st, 2), Field(st, 3), "Function"))

explore_FClassParams(env, st) ==
    Then(Found(<<Tolerant(Field(st, 1)), Utf8Discovery(Field(st, 2))>>),
    Then(PtrArrayOf(env, Field(st, 4), Field(st, 8), "Function"),
    Then(StructArrayOf(Field(st, 5), Field(st, 9), "FClassFunctionLinkInfo"),
    Then(PtrArrayOf(env, Field(st, 6), Field(st, 10), "PropertyParams"),
         StructArrayOf(Field(st, 7), Field(st, 11), "FImplementedInterfaceParams")))))

explore_FStructParams(env, st) ==
    Then(Found(<<Tolerant(Field(st, 1)), Tolerant(Field(st, 2)), Utf8Discovery(Field(st, 4))>>),
         PtrArrayOf(env, Field(st, 7), Field(st, 8), "PropertyParams"))

explore_FEnumParams(env, st) ==
    Then(Found(<<Tolerant(Field(st, 1)), Utf8Discovery(Field(st, 3)), Utf8Discovery(Field(st, 4))>>),
         StructArrayOf(Field(st, 5), Field(st, 6), "FEnumeratorParams"))

explore_FFunctionParams(env, st) ==
    Then(Found(<<Tolerant(Field(st, 1)), Tolerant(Field(st, 2)), Utf8Discovery(Field(st, 3)),
                 Utf8Discovery(Field(st, 4)), Utf8Discovery(Field(st, 5))>>),
         PtrArrayOf(env, Field(st, 7), Field(st, 8), "PropertyParams"))

explore_FEnumeratorParams(env, st) == Found(<<Utf8Discovery(Field(st, 1))>>)

explore_FImplementedInterfaceParams(env, st) == Found(<<Tolerant(Field(st, 1))>>)

explore_FClassFunctionLinkInfo(env, st) ==
    Found(<<Tolerant(Field(st, 1)), Utf8Discovery(Field(st, 2))>>)

\* EPropertyGenFlags values the property explorer dispatches on
PropertyKindName(v) ==
    CASE v = 0 -> "Byte" [] v = 12 -> "Bool" [] v = 13 -> "SoftClass"
      [] v = 17 -> "Class" [] v = 19 -> "Interface" [] v = 26 -> "Delegate"
      [] v = 27 -> "InlineMulticastDelegate" [] v = 28 -> "SparseMulticastDelegate"
      [] v = 30 -> "Enum" [] v = 14 -> "WeakObject" [] v = 15 -> "LazyObject"
      [] v = 16 -> "SoftObject" [] v = 18 -> "Object" [] OTHER -> "other"

\* explore_PropertyParams; the record is <<NameUTF8_ptr, RepNotifyFuncUTF8_ptr,
\* Flags.value, first tail pointer, second tail pointer>>; for Class the
\* tail is <<MetaClassFunc_ptr, ClassFunc_ptr>>
explore_PropertyParams(env, st) ==
    LET k == PropertyKindName(Field(st, 3))
        head == <<Utf8Discovery(Field(st, 1)), Utf8Discovery(Field(st, 2))>>
    IN  Found(head \o
          (CASE k \in {"Byte", "Enum"} -> <<ZConstructFunctionDiscovery(Field(st, 4), "Enum")>>
             [] k = "Class" -> <<ZConstructFunctionDiscovery(Field(st, 4), "Class"),
                                 ZConstructFunctionDiscovery(Field(st, 5), "Class")>>
             [] k \in {"Delegate", "InlineMulticastDelegate", "SparseMulticastDelegate"} ->
                    <<ZConstructFunctionDiscovery(Field(st, 4), "Function")>>
             [] k = "Interface" -> <<FunctionDiscovery(Field(st, 4), "parse_StaticClass", "None")>>
             [] k = "SoftClass" -> <<ZConstructFunctionDiscovery(Field(st, 4), "Class")>>
             [] OTHER -> <<>>))

\* explore_StructArtefact: the explorer registered for subject.struct_type
explore_StructArtefact(env, subject) ==
    LET t == subject.struct_type
        st == subject.data
    IN  CASE t = "FPackageParams" -> explore_FPackageParams(env, st)
          [] t = "FClassParams" -> explore_FClassParams(env, st)
          [] t = "FStructParams" -> explore_FStructParams(env, st)
          [] t = "FEnumParams" -> explore_FEnumParams(env, st)
          [] t = "FFunctionParams" -> explore_FFunctionParams(env, st)
          [] t = "FEnumeratorParams" -> explore_FEnumeratorParams(env, st)
          [] t = "FImplementedInterfaceParams" -> explore_FImplementedInterfaceParams(env, st)
          [] t = "FClassFunctionLinkInfo" -> explore_FClassFunctionLinkInfo(env, st)
          [] t = "PropertyParams" -> explore_PropertyParams(env, st)
          [] OTHER -> Found(<<>>)

explore_ZConstructFnArtefact(env, subject) ==
    Found(<<StructDiscovery(Field(subject.data, 2), ENUM_TO_STRUCT(subject.called_method_type))>>)

\* StaticClassFnArtefact fields, in order: package_name_ptr (1), name_ptr (2),
\* ..., config_name_ptr (9), ..., super_class_fn_ptr (13), within_class_fn_ptr (14)
explore_StaticClassFnArtefact(env, subject) ==
    Found(<<Utf16Discovery(Field(subject.data, 1)),
            Utf16Discovery(Field(subject.data, 2)),
            Utf16Discovery(Field(subject.data, 9)),
            FunctionDiscovery(Field(subject.data, 13), "parse_StaticClass", "None"),
            FunctionDiscovery(Field(subject.data, 14), "parse_StaticClass", "None")>>)

\* get_explorer_for_type(type(discoverable)): by the class name of the artefact
Explore(env, thing) ==
    CASE thing.cls = "StructArtefact" -> explore_StructArtefact(env, thing)
      [] thing.cls = "ZConstructFnArtefact" -> explore_ZConstructFnArtefact(env, thing)
      [] thing.cls = "StaticClassFnArtefact" -> explore_StaticClassFnArtefact(env, thing)
      [] OTHER -> Found(<<>>)

\* DiscoverySystem._discover: queue what the explorer yields
Discover(env, s, thing) ==
    LET Queued(e, q) ==
            IF q.exc # "None" THEN q ELSE [sys |-> q.sys, exc |-> e.exc, calls |-> q.calls]
        Explored(e) == LET Done(q) == Queued(e, q)
                       IN  One({Done(v) : v \in {QueueAll(s, e.discoveries, {})}})
    IN  One({Explored(v) : v \in {Explore(env, thing)}})

\* ------------------------------------------------- registering results
Put(m, k, v) == (k :> v) @@ m
GetOr(m, k, default) == IF k \in DOMAIN m THEN m[k] ELSE default

RegisterFound_NotInFound(s, thing, ptr) == s

\* DiscoverySystem._register_found(thing, for_discovery)
RegisterFound(s, thing, ptr) ==
    LET f == [s EXCEPT !.found = Put(s.found, ptr, thing)]
    IN  CASE thing.cls = "StringArtefact" ->
               [f EXCEPT !.found_strings = Put(s.found_strings, ptr, thing)]
          [] thing.cls = "StructArtefact" ->
               [f EXCEPT !.found_structs = Put(s.found_structs, ptr, thing),
                         !.found_structs_by_type =
                             Put(s.found_structs_by_type, thing.struct_type,
                                 Append(GetOr(s.found_structs_by_type, thing.struct_type, <<>>), thing)),
                         !.found_structs_by_type_and_ptr =
                             Put(s.found_structs_by_type_and_ptr, thing.struct_type,
                                 Put(GetOr(s.found_structs_by_type_and_ptr, thing.struct_type, EmptyMap),
                                     ptr, thing))]
          [] IsFunctionArtefact(thing) ->
               [f EXCEPT !.found_functions = Put(s.found_functions, ptr, thing),
                         !.found_functions_by_type =
                             Put(s.found_functions_by_type, thing.fn_type,
                                 Append(GetOr(s.found_functions_by_type, thing.fn_type, <<>>), thing)),
                         !.found_functions_by_type_and_ptr =
                             Put(s.found_functions_by_type_and_ptr, thing.fn_type,
                                 Put(GetOr(s.found_functions_by_type_and_ptr, thing.fn_type, EmptyMap),
                                     ptr, thing))]
          [] thing.cls = "TrampolineArtefact" ->
               [f EXCEPT !.found_trampolines = Put(s.found_trampolines, ptr, thing)]
          [] OTHER -> f

RECURSIVE ProcessThings_ExploreFirst(_, _, _, _, _)
ProcessThings_ExploreFirst(env, s, things, discovery, calls) ==
    IF things = <<>> THEN [sys |-> s, exc |-> "None", calls |-> calls]
    ELSE LET Discovered(r) ==
                 IF r.exc # "None" THEN [r EXCEPT !.calls = calls \cup r.calls]
                 ELSE ProcessThings_ExploreFirst(env, RegisterFound(r.sys, Head(things), discovery.ptr),
                                                 Tail(things), discovery, calls \cup r.calls)
         IN  One({Discovered(v) : v \in {Discover(env, s, Head(things))}})

\* process_one, lines 128-135: register each yielded artefact, then explore it
RECURSIVE ProcessThings(_, _, _, _, _)
ProcessThings(env, s, things, discovery, calls) ==
    IF things = <<>> THEN [sys |-> s, exc |-> "None", calls |-> calls]
    ELSE LET Discovered(r) ==
                 IF r.exc # "None" THEN [r EXCEPT !.calls = calls \cup r.calls]
                 ELSE ProcessThings(env, r.sys, Tail(things), discovery, calls \cup r.calls)
         IN  One({Discovered(v) : v \in {Discover(env, RegisterFound(s, Head(things), discovery.ptr), Head(things))}})

\* process_one: the first pending discovery is ready (is_ready is always True)
NextReady(pending) == pending[1]

\* DiscoverySystem.process_one: the system after the call, what it raised
\* and what it returned
ProcessOne(env, s) ==
    IF s.pending = <<>> THEN [sys |-> s, exc |-> "None", ret |-> FALSE, calls |-> {}]
    ELSE LET Explored(r) ==
                 [sys |-> r.sys, exc |-> r.exc, ret |-> (r.exc = "None"), calls |-> r.calls]
             Performed(discovery, removed, p) ==
                 IF p.exc # "None" THEN [sys |-> removed, exc |-> p.exc, ret |-> FALSE, calls |-> {}]
                 ELSE One({Explored(v) : v \in {ProcessThings(env, removed, p.things, discovery, {})}})
             Taken(discovery) ==
                 LET Removed(removed) ==
                         LET Done(p) == Performed(discovery, removed, p)
                         IN  One({Done(v) : v \in {Perform(env, discovery)}})
                 IN  One({Removed(v) : v \in {[s EXCEPT !.pending = PendingDel(s.pending, discovery.ptr)]}})
         IN  One({Taken(v) : v \in {NextReady(s.pending)}})

\* ------------------------------------------------------ modelled images
\* .text holds the first two RVAs, .rdata the rest.
TextRvas == {1, 2}
DataRvas == Rvas \ TextRvas

\* A ::StaticClass function: 14 arguments to GetPrivateStaticClassBody; its
\* name is the string at 3, its config name all-ones, its super class
\* function at 1 and its within class function at 2.
StaticClassCell ==
    Cell(FALSE, 0, "ok", "MOV", 0, "ok", "ok", "ok", CalleeAddr("GetPrivateStaticClassBody"),
         <<NULL_PTR, 3, 0, 0, 0, 0, 0, 0, ALL_ONES, 0, 0, 0, 1, 2>>, "ValueError", "ValueError", <<>>)
\* A ::StaticClass-shaped function with the given callee, name, super class
\* function and within class function
StaticClassFnCell(called_fn_addr, name_ptr, super_class_fn_ptr, within_class_fn_ptr) ==
    Cell(FALSE, 0, "ok", "MOV", 0, "ok", "ok", "ok", called_fn_addr,
         <<NULL_PTR, name_ptr, 0, 0, 0, 0, 0, 0, ALL_ONES, 0, 0, 0,
           super_class_fn_ptr, within_class_fn_ptr>>, "ValueError", "ValueError", <<>>)
\* A Z_Construct function found by the pattern sweep: (cache_ptr, params_struct_ptr)
ZConstructCell(kind, params_struct_ptr) ==
    Cell(TRUE, 0, "ok", "CMP", 0, "ok", "ok", "ok", CalleeAddr(kind),
         <<ALL_ONES, params_struct_ptr>>, "ValueError", "ValueError", <<>>)
\* Code whose prologue is not the expected one
BadPreludeCell ==
    Cell(FALSE, 0, "UnexpectedInstruction", "MOV", 0, "ok", "ok", "ok", 0, <<>>,
         "ValueError", "ValueError", <<>>)
\* A cached call without the TEST after its MOV RAX, [cache]: an assert fails
BadSkeletonCell ==
    Cell(FALSE, 0, "ok", "MOV", 0, "AssertionError", "ok", "ok", 0, <<>>,
         "ValueError", "ValueError", <<>>)
\* A register-to-register MOV among the arguments: it is MOV_RM64_R64 with
\* no memory operand, so used_memory()[0] raises IndexError
RegMoveCell ==
    Cell(FALSE, 0, "ok", "CMP", 0, "ok", "IndexError", "ok", 0, <<>>,
         "ValueError", "ValueError", <<>>)
\* A well-formed cached call that passes three arguments
ThreeArgCell ==
    Cell(FALSE, 0, "ok", "MOV", 0, "ok", "ok", "ok", CalleeAddr("other"), <<3, 3, 3>>,
         "ValueError", "ValueError", <<>>)
\* A record, read as FStructParams: OuterFunc 1, SuperFunc 2, NameUTF8 3
RecordCell ==
    Cell(FALSE, 0, "UnexpectedInstruction", "other", 0, "ok", "ok", "ok", 0, <<>>,
         "ok", "ValueError", <<1, 2, 0, 3, 0, 0, 0, 0>>)
\* A zero-terminated string in both encodings
StringCell ==
    Cell(FALSE, 0, "UnexpectedInstruction", "other", 0, "ok", "ok", "ok", 0, <<>>,
         "ok", "ok", <<>>)

TextCells == {StaticClassCell, ZConstructCell("Struct", 3), BadPreludeCell, BadSkeletonCell,
              RegMoveCell, ThreeArgCell}
DataCells == {RecordCell, StringCell}
Images == {im \in [Rvas -> TextCells \cup DataCells] :
              /\ \A r \in TextRvas \cap Rvas : im[r] \in TextCells
              /\ \A r \in DataRvas : im[r] \in DataCells}

\* discover_z_constructs: the caches filled from the pattern sweep of an image
AnalysedByCalledFnAddr == [a \in {CalleeAddr(k) : k \in ZConstructFnType} |->
                              CHOOSE k \in ZConstructFnType : CalleeAddr(k) = a]
AnalysedByFnAddr(im) ==
    [r \in {x \in DOMAIN im : im[x].seed} |-> Lookup(AnalysedByCalledFnAddr, im[r].called_fn_addr)]
\* known_functions lists the constructors least-called first (ties by
\* address) and each one's callers by address: x is written after y
WrittenAfter(im, x, y) ==
    LET amount(c) == Cardinality({z \in DOMAIN im : im[z].seed /\ im[z].called_fn_addr = c})
        cx == im[x].called_fn_addr
        cy == im[y].called_fn_addr
    IN  \/ amount(cx) > amount(cy)
        \/ amount(cx) = amount(cy) /\ cx > cy
        \/ cx = cy /\ x > y
\* cache_by_struct_addr[caller.struct_addr] = fn_type: the last write stays
AnalysedByStructAddr(im) ==
    [a \in {im[x].parameters[2] : x \in {y \in DOMAIN im : im[y].seed}} |->
        Lookup(AnalysedByCalledFnAddr,
               im[CHOOSE x \in DOMAIN im :
                     /\ im[x].seed /\ im[x].parameters[2] = a
                     /\ \A y \in DOMAIN im :
                           (im[y].seed /\ im[y].parameters[2] = a /\ y # x)
                               => WrittenAfter(im, x, y)].called_fn_addr)]

\* The discoveries a caller hands to queue()
Seeds ==
    {ZConstructFunctionDiscovery(1, i) : i \in {"None", "Struct", "Enum"}}
    \cup {FunctionDiscovery(1, "parse_StaticClass", "None"), Tolerant(1), Utf8Discovery(1),
          Tolerant(NULL_PTR), Utf8Discovery(ALL_ONES)}

\* ---------------------------------------------------------- the run
NoDiscovery == [ptr |-> 0, cls |-> "", arg |-> "", info |-> "None"]
\* fully_discover is not running: no seeds to queue, no address of
\* GetPrivateStaticClassBody, no call sites to walk back from
NoFrame == [seeds |-> <<>>, addr |-> 0, sites |-> <<>>, known |-> <<>>, loads |-> 0]
\* no stream is open; no section is being searched
NoStream == [base |-> 0, pos |-> 0, verify_alignment |-> FALSE, op |-> "none", width |-> 0,
             before |-> 0, start |-> 0, exc |-> "None"]
NoMemory == [bytes |-> <<>>, base |-> 0, target |-> 0, op |-> "none", yields |-> <<>>]
\* no function parser is at work
NoCode == [phase |-> "idle", addr |-> 0, jumps |-> <<>>, depth |-> 0, exc |-> "None"]

VARIABLES
    image,                    \* the loaded image
    cache_by_fn_addr,         \* ue/z_construct.py module cache
    cache_by_struct_addr,     \* ue/z_construct.py module cache
    cache_by_called_fn_addr,  \* ue/z_construct.py module cache
    ds,                       \* the DiscoverySystem
    raised,                   \* the exception that ended the run, "None" if none
    pc,                       \* "idle", or "process_all" inside its loop
    call,                     \* the last operation: op, its discovery, its result
    queued,                   \* history: every discovery queue() was called with
    processed,                \* history: how often each ptr was performed
    nseeds,                   \* number of queue() calls made by the caller
    twin,                     \* order comparison only: the seeds still to queue in
                              \* each of two runs, and the second run's system
    fd,                       \* the locals of fully_discover while it runs
    stream,                   \* an AutoAlignedMemoryStream and its last read
    memory,                   \* a section handed to find_calls and what was yielded
    code                      \* the CodeGrabber of a function parser at work

vars == <<image, cache_by_fn_addr, cache_by_struct_addr, cache_by_called_fn_addr, ds, raised, pc, call,
          queued, processed, nseeds, twin, fd, stream, memory, code>>

Env == [image |-> image, cache_by_fn_addr |-> cache_by_fn_addr,
        cache_by_called_fn_addr |-> cache_by_called_fn_addr]

Init ==
    /\ image \in Images
    /\ cache_by_fn_addr = AnalysedByFnAddr(image)
    /\ cache_by_struct_addr = AnalysedByStructAddr(image)
    /\ cache_by_called_fn_addr = AnalysedByCalledFnAddr
    /\ ds = NewSystem
    /\ raised = "None"
    /\ pc = "idle"
    /\ call = [op |-> "init", arg |-> NoDiscovery, ret |-> "None"]
    /\ queued = {}
    /\ processed = EmptyMap
    /\ nseeds = 0
    /\ twin = [a |-> <<>>, b |-> <<>>, ds |-> NewSystem, raised |-> "None"]
    /\ fd = NoFrame
    /\ code = NoCode
    /\ stream = NoStream
    /\ memory = NoMemory

Result(exc, ret) == IF exc # "None" THEN "raised" ELSE ret

\* the caller calls system.queue(d)
QueueCall(d) ==
    /\ pc = "idle" /\ raised = "None" /\ nseeds < MaxSeeds
    /\ \E r \in {Queue(ds, d)} :
           /\ ds' = r.sys
           /\ raised' = r.exc
           /\ call' = [op |-> "queue", arg |-> d, ret |-> Result(r.exc, "None")]
    /\ queued' = queued \cup {d}
    /\ nseeds' = nseeds + 1
    /\ UNCHANGED <<code, stream, memory, fd, image, cache_by_fn_addr, cache_by_struct_addr, cache_by_called_fn_addr, pc, processed, twin>>

\* one call of process_one, from the caller or from the loop of process_all
ProcessOneStep ==
    \E r \in {ProcessOne(Env, ds)}, d \in {IF ds.pending = <<>> THEN NoDiscovery ELSE NextReady(ds.pending)} :
        /\ ds' = r.sys
        /\ raised' = r.exc
        /\ call' = [op |-> "process_one", arg |-> d,
                    ret |-> Result(r.exc, IF r.ret THEN "True" ELSE "False")]
        /\ queued' = queued \cup r.calls
        /\ processed' = IF ds.pending = <<>> THEN processed
                        ELSE Put(processed, d.ptr, GetOr(processed, d.ptr, 0) + 1)
        /\ UNCHANGED <<code, stream, memory, fd, image, cache_by_fn_addr, cache_by_struct_addr, cache_by_called_fn_addr, nseeds, twin>>

\* the caller calls system.process_one()
ProcessOneCall ==
    /\ pc = "idle" /\ raised = "None"
    /\ ProcessOneStep
    /\ pc' = pc

\* the caller calls system.process_all()
ProcessAllCall ==
    /\ pc = "idle" /\ raised = "None"
    /\ pc' = "process_all"
    /\ call' = [op |-> "process_all", arg |-> NoDiscovery, ret |-> "running"]
    /\ UNCHANGED <<code, stream, memory, fd, image, cache_by_fn_addr, cache_by_struct_addr, cache_by_called_fn_addr, ds, raised,
                   queued, processed, nseeds, twin>>

\* process_all: while self.pending: self.process_one()
ProcessAllStep ==
    /\ pc = "process_all" /\ raised = "None" /\ ds.pending # <<>>
    /\ ProcessOneStep
    /\ pc' = pc

ProcessAllReturn_Early ==
    /\ pc = "process_all" /\ raised = "None"
    /\ pc' = "idle"
    /\ call' = [op |-> "process_all", arg |-> NoDiscovery, ret |-> "returned"]
    /\ UNCHANGED <<code, stream, memory, fd, image, cache_by_fn_addr, cache_by_struct_addr, cache_by_called_fn_addr, ds, raised,
                   queued, processed, nseeds, twin>>

\* process_all: the loop condition is false, the call returns
ProcessAllReturn ==
    /\ pc = "process_all" /\ raised = "None" /\ ds.pending = <<>>
    /\ pc' = "idle"
    /\ call' = [op |-> "process_all", arg |-> NoDiscovery, ret |-> "returned"]
    /\ UNCHANGED <<code, stream, memory, fd, image, cache_by_fn_addr, cache_by_struct_addr, cache_by_called_fn_addr, ds, raised,
                   queued, processed, nseeds, twin>>

Next ==
    \/ \E d \in Seeds : QueueCall(d)
    \/ ProcessOneCall
    \/ ProcessAllCall
    \/ ProcessAllStep
    \/ ProcessAllReturn

Spec == Init /\ [][Next]_vars

\* process_all is a loop that the interpreter keeps running: inside it the
\* next process_one call, and the return once pending is empty, do happen.
FairSpec == Spec /\ WF_vars(ProcessAllStep) /\ WF_vars(ProcessAllReturn)

\* ------------------------------------------- two runs, two seed orders
\* The same image and the same set of seeds in two runs that differ only in
\* the order the seeds are queued, hence in the order process_one finds the
\* discoveries in pending.  The first run uses ds and raised, the second
\* twin.ds and twin.raised; each run is: queue the seeds, then process_all.
OrderSeeds ==
    {FunctionDiscovery(p, f, "None") : p \in TextRvas, f \in {"parse_StaticClass", "parse_ZConstructOrStaticClass"}}
    \cup {ZConstructFunctionDiscovery(1, "Struct"), StructDiscovery(3, "FStructParams")}

Orders(n) == {o \in [1..n -> OrderSeeds] : \A i, j \in 1..n : i # j => o[i] # o[j]}
IsPermutation(o, q) == {o[i] : i \in DOMAIN o} = {q[i] : i \in DOMAIN q}

InitOrder ==
    /\ image \in Images
    /\ cache_by_fn_addr = AnalysedByFnAddr(image)
    /\ cache_by_struct_addr = AnalysedByStructAddr(image)
    /\ cache_by_called_fn_addr = AnalysedByCalledFnAddr
    /\ ds = NewSystem
    /\ raised = "None"
    /\ pc = "idle"
    /\ call = [op |-> "init", arg |-> NoDiscovery, ret |-> "None"]
    /\ queued = {}
    /\ processed = EmptyMap
    /\ nseeds = 0
    /\ \E a \in Orders(MaxSeeds), b \in Orders(MaxSeeds) :
          /\ IsPermutation(a, b)
          /\ twin = [a |-> a, b |-> b, ds |-> NewSystem, raised |-> "None"]
    /\ fd = NoFrame
    /\ code = NoCode
    /\ stream = NoStream
    /\ memory = NoMemory

\* a run is over when it raised, or when process_all returned
FirstRunDone == raised # "None" \/ (twin.a = <<>> /\ ds.pending = <<>>)
SecondRunDone == twin.raised # "None" \/ (twin.b = <<>> /\ twin.ds.pending = <<>>)

\* first run: system.queue(seed) for the next seed of its order
FirstQueue ==
    /\ twin.a # <<>> /\ raised = "None"
    /\ \E r \in {Queue(ds, Head(twin.a))} :
           /\ ds' = r.sys
           /\ raised' = r.exc
    /\ twin' = [twin EXCEPT !.a = Tail(twin.a)]
    /\ UNCHANGED <<code, stream, memory, fd, image, cache_by_fn_addr, cache_by_struct_addr, cache_by_called_fn_addr, pc, call,
                   queued, processed, nseeds>>

\* first run: one iteration of process_all
FirstProcess ==
    /\ twin.a = <<>> /\ raised = "None" /\ ds.pending # <<>>
    /\ \E r \in {ProcessOne(Env, ds)} :
           /\ ds' = r.sys
           /\ raised' = r.exc
    /\ UNCHANGED <<code, stream, memory, fd, image, cache_by_fn_addr, cache_by_struct_addr, cache_by_called_fn_addr, pc, call,
                   queued, processed, nseeds, twin>>

\* second run, on a fresh system, once the first is over
SecondQueue ==
    /\ FirstRunDone
    /\ twin.b # <<>> /\ twin.raised = "None"
    /\ \E r \in {Queue(twin.ds, Head(twin.b))} :
           twin' = [twin EXCEPT !.b = Tail(twin.b), !.ds = r.sys, !.raised = r.exc]
    /\ UNCHANGED <<code, stream, memory, fd, image, cache_by_fn_addr, cache_by_struct_addr, cache_by_called_fn_addr, ds, raised, pc, call,
                   queued, processed, nseeds>>

SecondProcess ==
    /\ FirstRunDone
    /\ twin.b = <<>> /\ twin.raised = "None" /\ twin.ds.pending # <<>>
    /\ \E r \in {ProcessOne(Env, twin.ds)} :
           twin' = [twin EXCEPT !.ds = r.sys, !.raised = r.exc]
    /\ UNCHANGED <<code, stream, memory, fd, image, cache_by_fn_addr, cache_by_struct_addr, cache_by_called_fn_addr, ds, raised, pc, call,
                   queued, processed, nseeds>>

NextOrder ==
    \/ FirstQueue
    \/ FirstProcess
    \/ SecondQueue
    \/ SecondProcess

SpecOrder == InitOrder /\ [][NextOrder]_vars

\* ------------------------------------- a seed index from another image
\* The seed index is module state of ue/z_construct.py: it holds what the
\* latest discover_z_constructs left there, which need not have been run on
\* the image a DiscoverySystem is working on.
KindTextCells == {ZConstructCell("Struct", 3), ZConstructCell("Enum", 3), StaticClassCell}
KindImages == {im \in [Rvas -> KindTextCells \cup DataCells] :
                  /\ \A r \in TextRvas \cap Rvas : im[r] \in KindTextCells
                  /\ \A r \in DataRvas : im[r] \in DataCells}

InitKinds ==
    /\ image \in KindImages
    /\ \E analysed \in KindImages :
           /\ cache_by_fn_addr = AnalysedByFnAddr(analysed)
           /\ cache_by_struct_addr = AnalysedByStructAddr(analysed)
    /\ cache_by_called_fn_addr = AnalysedByCalledFnAddr
    /\ ds = NewSystem
    /\ raised = "None"
    /\ pc = "idle"
    /\ call = [op |-> "init", arg |-> NoDiscovery, ret |-> "None"]
    /\ queued = {}
    /\ processed = EmptyMap
    /\ nseeds = 0
    /\ twin = [a |-> <<>>, b |-> <<>>, ds |-> NewSystem, raised |-> "None"]
    /\ fd = NoFrame
    /\ code = NoCode
    /\ stream = NoStream
    /\ memory = NoMemory

SpecKinds == InitKinds /\ [][Next]_vars

\* ------------------------------------------------------ fully_discover
\* The images of a whole run: a Z_Construct function at 1 whose params
\* struct is the record at 3, ::StaticClass-shaped functions (or other code)
\* at 2 and at two further .text RVAs past the data.
FullTextRvas == TextRvas \cup {MaxRva + 1, MaxRva + 2}
FullRvas == 1..(MaxRva + 2)
FullStaticClassCells ==
    {StaticClassFnCell(CalleeAddr(c), 3, s, NULL_PTR) :
        c \in {"GetPrivateStaticClassBody", "other"}, s \in {NULL_PTR, MaxRva + 1, MaxRva + 2}}
FullImages ==
    {im \in [FullRvas -> FullStaticClassCells \cup
                         {ZConstructCell("Struct", 3), BadPreludeCell, RecordCell, StringCell}] :
        /\ im[1] = ZConstructCell("Struct", 3)
        /\ im[3] = RecordCell
        /\ \A r \in FullTextRvas \ {1} : im[r] \in FullStaticClassCells \cup {BadPreludeCell}
        /\ \A r \in FullRvas \ (FullTextRvas \cup {3}) : im[r] = StringCell}

\* the elements of a finite set of numbers, ascending
RECURSIVE Ascending(_)
Ascending(S) ==
    IF S = {} THEN <<>>
    ELSE LET m == CHOOSE x \in S : \A y \in S : x <= y
         IN  <<m>> \o Ascending(S \ {m})

\* analysis.known_functions: for fn_type, info: for caller in info.callers
KnownCallers(im) ==
    [i \in 1..Cardinality({r \in DOMAIN im : im[r].seed}) |->
        ZConstructFunctionDiscovery(
            Ascending({r \in DOMAIN im : im[r].seed})[i],
            Lookup(AnalysedByCalledFnAddr,
                   im[Ascending({r \in DOMAIN im : im[r].seed})[i]].called_fn_addr))]

\* find_calls(target, text_memory, text_base): the sites of CALL target
find_calls(im, target) ==
    Ascending({r \in DOMAIN im : im[r].prelude = "ok" /\ im[r].called_fn_addr = target})

\* STATICCLASS_PREQUEL (MOV R11, RSP; SUB RSP, imm): in these images the
\* functions that pass arguments on the stack begin with it
STATICCLASS_PREQUEL(cell) == cell.prelude = "ok" /\ Len(cell.parameters) > 4

\* Pattern.search_reverse over the bytes before the call: offsets of the
\* prologue walking back from the call site; the first is the nearest
search_reverse(im, site) ==
    LET starts == {r \in DOMAIN im : r <= site /\ STATICCLASS_PREQUEL(im[r])}
    IN  IF starts = {} THEN <<>>
        ELSE <<CHOOSE r \in starts : \A q \in starts : q <= r>>

InitFull ==
    /\ image \in FullImages
    /\ cache_by_fn_addr = EmptyMap
    /\ cache_by_struct_addr = EmptyMap
    /\ cache_by_called_fn_addr = EmptyMap
    /\ ds = NewSystem
    /\ raised = "None"
    /\ pc = "fd_analyse"
    /\ call = [op |-> "init", arg |-> NoDiscovery, ret |-> "None"]
    /\ queued = {}
    /\ processed = EmptyMap
    /\ nseeds = 0
    /\ twin = [a |-> <<>>, b |-> <<>>, ds |-> NewSystem, raised |-> "None"]
    /\ fd = NoFrame
    /\ code = NoCode
    /\ stream = NoStream
    /\ memory = NoMemory

\* analysis = analyse_image(image)
FdAnalyse ==
    /\ pc = "fd_analyse" /\ raised = "None"
    /\ cache_by_fn_addr' = AnalysedByFnAddr(image)
    /\ cache_by_struct_addr' = AnalysedByStructAddr(image)
    /\ cache_by_called_fn_addr' = AnalysedByCalledFnAddr
    /\ fd' = [fd EXCEPT !.seeds = KnownCallers(image)]
    /\ pc' = "fd_queue"
    /\ call' = [op |-> "analyse_image", arg |-> NoDiscovery, ret |-> "None"]
    /\ UNCHANGED <<code, stream, memory, image, ds, raised, queued, processed, nseeds, twin>>

\* discovery.queue(ZConstructFunctionDiscovery(caller.fn_addr, fn_type))
FdQueueSeed ==
    /\ pc = "fd_queue" /\ raised = "None" /\ fd.seeds # <<>>
    /\ \E r \in {Queue(ds, Head(fd.seeds))} :
           /\ ds' = r.sys
           /\ raised' = r.exc
           /\ call' = [op |-> "queue", arg |-> Head(fd.seeds), ret |-> Result(r.exc, "None")]
    /\ queued' = queued \cup {Head(fd.seeds)}
    /\ nseeds' = nseeds + 1
    /\ fd' = [fd EXCEPT !.seeds = Tail(fd.seeds)]
    /\ UNCHANGED <<code, stream, memory, image, cache_by_fn_addr, cache_by_struct_addr, cache_by_called_fn_addr, pc, processed, twin>>

\* discovery.process_all(), first and second: one iteration of its loop
FdProcess ==
    /\ pc \in {"fd_queue", "fd_scan"} /\ raised = "None"
    /\ IF pc = "fd_queue" THEN fd.seeds = <<>> ELSE fd.sites = <<>>
    /\ ds.pending # <<>>
    /\ ProcessOneStep
    /\ pc' = pc

\* lines 43-51: the address all StaticClass functions found so far call,
\* then the call sites of that address
FdCheck ==
    /\ pc = "fd_queue" /\ raised = "None" /\ fd.seeds = <<>> /\ ds.pending = <<>>
    /\ \E fns \in {GetOr(ds.found_functions_by_type, "parse_StaticClass", <<>>)} :
          IF fns = <<>>
          THEN raised' = "IndexError" /\ pc' = pc /\ fd' = fd
          ELSE IF \E i \in 1..Len(fns) : fns[i].called_fn_addr # fns[1].called_fn_addr
          THEN raised' = "ValueError" /\ pc' = pc /\ fd' = fd
          ELSE /\ raised' = "None"
               /\ pc' = "fd_scan"
               /\ fd' = [fd EXCEPT !.addr = fns[1].called_fn_addr,
                                   !.sites = find_calls(image, fns[1].called_fn_addr)]
    /\ call' = [op |-> "check", arg |-> NoDiscovery, ret |-> "None"]
    /\ UNCHANGED <<code, stream, memory, image, cache_by_fn_addr, cache_by_struct_addr, cache_by_called_fn_addr, ds, queued,
                   processed, nseeds, twin>>

\* lines 52-58: walk back from the call site to the start of its function
\* and queue a StaticClass discovery there
FdQueueFound ==
    /\ pc = "fd_scan" /\ raised = "None" /\ fd.sites # <<>>
    /\ \E starts \in {search_reverse(image, Head(fd.sites))} :
          IF starts = <<>>
          THEN UNCHANGED <<code, stream, memory, ds, raised, call, queued, nseeds>>
          ELSE \E d \in {FunctionDiscovery(starts[1], "parse_StaticClass", "None")} :
                 \E r \in {Queue(ds, d)} :
                    /\ ds' = r.sys
                    /\ raised' = r.exc
                    /\ call' = [op |-> "queue", arg |-> d, ret |-> Result(r.exc, "None")]
                    /\ queued' = queued \cup {d}
                    /\ nseeds' = nseeds + 1
    /\ fd' = [fd EXCEPT !.sites = Tail(fd.sites)]
    /\ UNCHANGED <<code, stream, memory, image, cache_by_fn_addr, cache_by_struct_addr, cache_by_called_fn_addr, pc, processed, twin>>

\* return discovery
FdReturn ==
    /\ pc = "fd_scan" /\ raised = "None" /\ fd.sites = <<>> /\ ds.pending = <<>>
    /\ pc' = "fd_done"
    /\ call' = [op |-> "fully_discover", arg |-> NoDiscovery, ret |-> "returned"]
    /\ UNCHANGED <<code, stream, memory, image, cache_by_fn_addr, cache_by_struct_addr, cache_by_called_fn_addr, ds, raised,
                   queued, processed, nseeds, twin, fd>>

NextFull ==
    \/ FdAnalyse
    \/ FdQueueSeed
    \/ FdProcess
    \/ FdCheck
    \/ FdQueueFound
    \/ FdReturn

SpecFull == InitFull /\ [][NextFull]_vars

\* ------------------------------------------------------- seed analysis
MaxLoads == 2

STRUCT_TO_ENUM(struct_type) ==
    CHOOSE kind \in ZConstructFnType : ENUM_TO_STRUCT(kind) = struct_type

\* The kinds in declaration order; the k-th seed function of the images
\* below is at RVA k, its params record at SeedStruct(k), and the k-th
\* constructor at CalleeAddr(SeedKinds[k])
SeedKinds == <<"Package", "Class", "Struct", "Enum", "Function">>
SeedStruct(k) == CalleeAddr("GetPrivateStaticClassBody") + k
SeedFnCell(call_addr, struct_addr) ==
    [ZConstructCell("Package", struct_addr) EXCEPT !.called_fn_addr = call_addr]
ConstructorCell(stack) == [BadPreludeCell EXCEPT !.stack = stack]
ParamsCell(valid) == [RecordCell EXCEPT !.valid = valid]

\* An image with seed functions at 1..5 and possibly 6, the constructors
\* they call and the params records they pass
SeedImage(c1, c2, c3, six, v1, v2, v6, s1, s2) ==
    LET fns == [k \in 1..5 |->
                   SeedFnCell(CASE k = 1 -> c1 [] k = 2 -> c2 [] k = 3 -> c3
                                [] OTHER -> CalleeAddr(SeedKinds[k]),
                              SeedStruct(k))]
        recs == [k \in 1..5 |->
                   ParamsCell(CASE k = 1 -> v1 [] k = 2 -> v2
                                [] OTHER -> {ENUM_TO_STRUCT(SeedKinds[k])})]
        ctors == [k \in 1..5 |->
                   ConstructorCell(CASE k = 1 -> s1 [] k = 2 -> s2 [] OTHER -> "ok")]
    IN  [r \in (1..6) \cup {SeedStruct(k) : k \in 1..6}
               \cup {CalleeAddr(SeedKinds[k]) : k \in 1..5} \cup {CalleeAddr("other")} |->
            CASE r \in 1..5 -> fns[r]
              [] r = 6 -> IF six = 0 THEN BadPreludeCell ELSE SeedFnCell(six, SeedStruct(6))
              [] r = SeedStruct(6) -> ParamsCell(v6)
              [] r \in {SeedStruct(k) : k \in 1..5} ->
                    recs[CHOOSE k \in 1..5 : SeedStruct(k) = r]
              [] r = CalleeAddr("other") -> ConstructorCell("ok")
              [] OTHER -> ctors[CHOOSE k \in 1..5 : CalleeAddr(SeedKinds[k]) = r]]

\* An image whose .text has no Z_Construct function at all
NoSeedImage ==
    [r \in DOMAIN SeedImage(0, 0, 0, 0, {}, {}, {}, "ok", "ok") |->
        IF r \in 1..6 THEN BadPreludeCell
        ELSE SeedImage(0, 0, 0, 0, {}, {}, {}, "ok", "ok")[r]]

SeedImages ==
    {NoSeedImage} \cup
    {SeedImage(c1, c2, c3, six, v1, v2, v6, s1, s2) :
        c1 \in {CalleeAddr("Package"), CalleeAddr("other")},
        c2 \in {CalleeAddr("Class"), CalleeAddr("Package")},
        c3 \in {CalleeAddr("Struct"), CalleeAddr("Package")},
        six \in {0, CalleeAddr("Package"), CalleeAddr("other")},
        v1 \in {{"FPackageParams"}, {}, {"FPackageParams", "FClassParams"}, {"FClassParams"}},
        v2 \in {{"FClassParams"}, {"FPackageParams"}, {}},
        v6 \in {{"FPackageParams"}, {"FFunctionParams"}},
        s1 \in {"ok", "AssertionError"},
        s2 \in {"ok", "AssertionError"}}

\* The images analysed after the first one in the same process
LaterImages ==
    {SeedImage(c1, CalleeAddr("Class"), CalleeAddr("Struct"), six,
               {"FPackageParams"}, {"FClassParams"}, {"FPackageParams"}, "ok", "ok") :
        c1 \in {CalleeAddr("Package"), CalleeAddr("other")},
        six \in {0, CalleeAddr("Package")}}

ZConstruct(fn_addr, call_addr, struct_addr) ==
    [fn_addr |-> fn_addr, call_addr |-> call_addr, struct_addr |-> struct_addr]
ZConstructInfo(fn_addr, amount, callers) ==
    [fn_addr |-> fn_addr, amount |-> amount, callers |-> callers]

\* find_z_constructs(image): the pattern's matches in .text, in address order
find_z_constructs(im) ==
    [i \in 1..Cardinality({r \in DOMAIN im : im[r].seed}) |->
        One({ZConstruct(r, im[r].called_fn_addr, im[r].parameters[2]) :
                r \in {Ascending({x \in DOMAIN im : im[x].seed})[i]}})]

SelectCallers(z_constructs, call_addr) ==
    SelectSeq(z_constructs, LAMBDA zc : zc.call_addr = call_addr)

\* sorted(results, key=amount): stable
RECURSIVE SortedByAmount(_)
SortedByAmount(results) ==
    IF results = <<>> THEN <<>>
    ELSE LET i == CHOOSE j \in 1..Len(results) :
                      /\ \A k \in 1..Len(results) : results[j].amount <= results[k].amount
                      /\ \A k \in 1..(j - 1) : results[k].amount # results[j].amount
         IN  <<results[i]>> \o
             SortedByAmount(SubSeq(results, 1, i - 1) \o SubSeq(results, i + 1, Len(results)))

\* _group_construct_fns(image, z_constructs)
RECURSIVE GroupFrom(_, _, _)
GroupFrom(im, z_constructs, call_addrs) ==
    IF call_addrs = <<>> THEN <<>>
    ELSE (IF im[Head(call_addrs)].stack # "ok" THEN <<>>
          ELSE <<ZConstructInfo(Head(call_addrs),
                                Len(SelectCallers(z_constructs, Head(call_addrs))),
                                SelectCallers(z_constructs, Head(call_addrs)))>>)
         \o GroupFrom(im, z_constructs, Tail(call_addrs))
group_construct_fns(im, z_constructs) ==
    SortedByAmount(GroupFrom(im, z_constructs,
        Ascending({z_constructs[i].call_addr : i \in 1..Len(z_constructs)})))

\* _guess_possible_struct_types(image, addr)
guess_possible_struct_types(im, addr) == im[addr].valid

\* the first caller whose params record fits exactly one record type, 0 if none
FirstGuessable(im, callers) ==
    IF \E i \in 1..Len(callers) :
          Cardinality(guess_possible_struct_types(im, callers[i].struct_addr)) = 1
    THEN CHOOSE i \in 1..Len(callers) :
          /\ Cardinality(guess_possible_struct_types(im, callers[i].struct_addr)) = 1
          /\ \A j \in 1..(i - 1) :
                Cardinality(guess_possible_struct_types(im, callers[j].struct_addr)) # 1
    ELSE 0

\* known_functions[enum_type] = info, on a dict kept as its items in
\* insertion order
DictSet(items, key, value) ==
    IF \E i \in 1..Len(items) : items[i].key = key
    THEN [i \in 1..Len(items) |->
             IF items[i].key = key THEN [key |-> key, value |-> value] ELSE items[i]]
    ELSE Append(items, [key |-> key, value |-> value])

\* _categorize_z_construct_calls(image, z_constructs)
RECURSIVE CategorizeFrom(_, _, _)
CategorizeFrom(im, infos, known_functions) ==
    IF infos = <<>> THEN known_functions
    ELSE CategorizeFrom(im, Tail(infos),
            IF FirstGuessable(im, Head(infos).callers) = 0 THEN known_functions
            ELSE DictSet(known_functions,
                         STRUCT_TO_ENUM(One(guess_possible_struct_types(im,
                             Head(infos).callers[FirstGuessable(im, Head(infos).callers)].struct_addr))),
                         Head(infos)))
categorize_z_construct_calls(im, infos) == CategorizeFrom(im, infos, <<>>)

\* the cache writes of lines 55-59, in order
RECURSIVE PutCallers(_, _, _, _)
PutCallers(cache, callers, field, fn_type) ==
    IF callers = <<>> THEN cache
    ELSE PutCallers(Put(cache, Head(callers)[field], fn_type), Tail(callers), field, fn_type)
RECURSIVE Populate(_, _)
Populate(caches, known_functions) ==
    IF known_functions = <<>> THEN caches
    ELSE Populate(
            [by_fn |-> PutCallers(caches.by_fn, Head(known_functions).value.callers,
                                  "fn_addr", Head(known_functions).key),
             by_struct |-> PutCallers(caches.by_struct, Head(known_functions).value.callers,
                                      "struct_addr", Head(known_functions).key),
             by_called |-> Put(caches.by_called, Head(known_functions).value.fn_addr,
                               Head(known_functions).key)],
            Tail(known_functions))

discover_z_constructs_NoKnownAssert(im, caches) ==
    LET codegen_construct_fns == group_construct_fns(im, find_z_constructs(im))
        known_functions == categorize_z_construct_calls(im, codegen_construct_fns)
    IN  IF Len(codegen_construct_fns) # 5
        THEN [exc |-> "AssertionError", known |-> <<>>, caches |-> caches]
        ELSE [exc |-> "None", known |-> known_functions,
              caches |-> Populate([caches EXCEPT !.by_fn = EmptyMap], known_functions)]

\* discover_z_constructs(image) on the module caches
discover_z_constructs(im, caches) ==
    LET codegen_construct_fns == group_construct_fns(im, find_z_constructs(im))
        known_functions == categorize_z_construct_calls(im, codegen_construct_fns)
    IN  IF Len(codegen_construct_fns) # 5
        THEN [exc |-> "AssertionError", known |-> <<>>, caches |-> caches]
        ELSE IF Len(known_functions) # 5
        THEN [exc |-> "AssertionError", known |-> <<>>, caches |-> caches]
        ELSE [exc |-> "None", known |-> known_functions,
              caches |-> Populate([caches EXCEPT !.by_fn = EmptyMap], known_functions)]

\* for fn_type, pkg_struct in known_functions.items(): for caller in callers
RECURSIVE SeedDiscoveries(_)
SeedDiscoveries(known_functions) ==
    IF known_functions = <<>> THEN <<>>
    ELSE [i \in 1..Len(Head(known_functions).value.callers) |->
             ZConstructFunctionDiscovery(Head(known_functions).value.callers[i].fn_addr,
                                         Head(known_functions).key)]
         \o SeedDiscoveries(Tail(known_functions))

InitSeeds ==
    /\ image \in SeedImages
    /\ cache_by_fn_addr = EmptyMap
    /\ cache_by_struct_addr = EmptyMap
    /\ cache_by_called_fn_addr = EmptyMap
    /\ ds = NewSystem
    /\ raised = "None"
    /\ pc = "fd_analyse"
    /\ call = [op |-> "init", arg |-> NoDiscovery, ret |-> "None"]
    /\ queued = {}
    /\ processed = EmptyMap
    /\ nseeds = 0
    /\ twin = [a |-> <<>>, b |-> <<>>, ds |-> NewSystem, raised |-> "None"]
    /\ fd = NoFrame
    /\ code = NoCode
    /\ stream = NoStream
    /\ memory = NoMemory

\* analysis = analyse_image(image), seed analysis included
SeedAnalyse ==
    /\ pc = "fd_analyse" /\ raised = "None"
    /\ \E r \in {discover_z_constructs(image,
                    [by_fn |-> cache_by_fn_addr, by_struct |-> cache_by_struct_addr,
                     by_called |-> cache_by_called_fn_addr])} :
          /\ cache_by_fn_addr' = r.caches.by_fn
          /\ cache_by_struct_addr' = r.caches.by_struct
          /\ cache_by_called_fn_addr' = r.caches.by_called
          /\ raised' = r.exc
          /\ fd' = [fd EXCEPT !.known = r.known, !.seeds = SeedDiscoveries(r.known)]
          /\ pc' = IF r.exc = "None" THEN "fd_queue" ELSE pc
          /\ call' = [op |-> "analyse_image", arg |-> NoDiscovery, ret |-> Result(r.exc, "None")]
    /\ UNCHANGED <<code, stream, memory, image, ds, queued, processed, nseeds, twin>>

\* the seeds are queued: the run goes on as in SpecFull
SeedsQueued ==
    /\ pc = "fd_queue" /\ raised = "None" /\ fd.seeds = <<>>
    /\ pc' = "fd_queued"
    /\ call' = [op |-> "queued", arg |-> NoDiscovery, ret |-> "None"]
    /\ UNCHANGED <<code, stream, memory, image, cache_by_fn_addr, cache_by_struct_addr, cache_by_called_fn_addr,
                   ds, raised, queued, processed, nseeds, twin, fd>>

\* the process loads another image and calls fully_discover on it
LoadNext ==
    /\ pc = "fd_queued" \/ raised # "None"
    /\ fd.loads + 1 < MaxLoads
    /\ image' \in LaterImages
    /\ ds' = NewSystem
    /\ raised' = "None"
    /\ pc' = "fd_analyse"
    /\ call' = [op |-> "init", arg |-> NoDiscovery, ret |-> "None"]
    /\ queued' = {}
    /\ nseeds' = 0
    /\ fd' = [NoFrame EXCEPT !.loads = fd.loads + 1]
    /\ UNCHANGED <<code, stream, memory, cache_by_fn_addr, cache_by_struct_addr, cache_by_called_fn_addr,
                   processed, twin>>

NextSeeds ==
    \/ SeedAnalyse
    \/ FdQueueSeed
    \/ SeedsQueued
    \/ LoadNext

SpecSeeds == InitSeeds /\ [][NextSeeds]_vars

\* ------------------------------------------- trampolines and sections
\* A JMP rel32 to target
JmpCell(target) ==
    Cell(FALSE, target, "UnexpectedInstruction", "other", 0, "ok", "ok", "ok", 0, <<>>,
         "ValueError", "ValueError", <<>>)
\* Code that begins with a zero byte (ADD [RAX], AL): read as a string it
\* is the empty zero-terminated string
ZeroCodeCell ==
    Cell(FALSE, 0, "UnexpectedInstruction", "other", 0, "ok", "ok", "ok", 0, <<>>,
         "ok", "ValueError", <<>>)
\* An FStructParams whose NameUTF8 holds the RVA 2
NameInTextCell == [RecordCell EXCEPT !.words = <<1, 0, 0, 2, 0, 0, 0, 0>>]

\* Images with chains of jumps from 1 to a function past the data, and
\* records at 3 whose pointers lead into .text
JumpImages ==
    {im \in [FullRvas -> {JmpCell(2), JmpCell(MaxRva + 1), JmpCell(MaxRva + 2), JmpCell(1),
                          ZConstructCell("Struct", 3), ZeroCodeCell, BadPreludeCell,
                          StaticClassFnCell(CalleeAddr("GetPrivateStaticClassBody"), 3, 0, 0),
                          RecordCell, NameInTextCell, StringCell}] :
        /\ im[1] \in {JmpCell(2), JmpCell(MaxRva + 1), ZConstructCell("Struct", 3)}
        /\ im[2] \in {JmpCell(MaxRva + 1), ZeroCodeCell, BadPreludeCell}
        /\ im[3] \in {RecordCell, NameInTextCell}
        /\ im[MaxRva + 1] \in {JmpCell(MaxRva + 2), JmpCell(1), BadPreludeCell,
                               StaticClassFnCell(CalleeAddr("GetPrivateStaticClassBody"), 3, 0, 0)}
        /\ im[MaxRva + 2] = StaticClassFnCell(CalleeAddr("GetPrivateStaticClassBody"), 3, 0, 0)
        /\ \A r \in FullRvas \ (FullTextRvas \cup {3}) : im[r] = StringCell}

InitJumps ==
    /\ image \in JumpImages
    /\ cache_by_fn_addr = AnalysedByFnAddr(image)
    /\ cache_by_struct_addr = AnalysedByStructAddr(image)
    /\ cache_by_called_fn_addr = AnalysedByCalledFnAddr
    /\ ds = NewSystem
    /\ raised = "None"
    /\ pc = "idle"
    /\ call = [op |-> "init", arg |-> NoDiscovery, ret |-> "None"]
    /\ queued = {}
    /\ processed = EmptyMap
    /\ nseeds = 0
    /\ twin = [a |-> <<>>, b |-> <<>>, ds |-> NewSystem, raised |-> "None"]
    /\ fd = NoFrame
    /\ code = NoCode
    /\ stream = NoStream
    /\ memory = NoMemory

SpecJumps == InitJumps /\ [][Next]_vars

\* ------------------------------------------------------------- streams
MaxPos == 24
StreamBases == 0..8
StreamOffsets == 0..8

\* MemoryStream.align: self._pos = (self._pos + align - 1) & ~(align - 1)
align(pos, width) == ((pos + width - 1) \div width) * width

\* AutoAlignedMemoryStream.u16/u32/u64/s16/s32/s64 (width 2, 4, 8) and
\* MemoryStream.u8/s8 (width 1), with the check of the strict mode in the
\* readers they call
AutoAlignedRead(st, width, peek) ==
    LET pos == IF width > 1 /\ (st.pos + st.base) % width # 0 THEN align(st.pos, width)
               ELSE st.pos
    IN  IF width > 1 /\ st.verify_alignment /\ pos % width # 0
        THEN [st EXCEPT !.pos = pos, !.op = "read", !.width = width, !.before = st.pos,
                        !.start = pos + st.base, !.exc = "AlignmentError"]
        ELSE [st EXCEPT !.pos = IF peek THEN pos ELSE pos + width, !.op = "read",
                        !.width = width, !.before = st.pos, !.start = pos + st.base,
                        !.exc = "None"]

InitStream ==
    /\ image = [r \in Rvas |-> StringCell]
    /\ cache_by_fn_addr = EmptyMap
    /\ cache_by_struct_addr = EmptyMap
    /\ cache_by_called_fn_addr = EmptyMap
    /\ ds = NewSystem
    /\ raised = "None"
    /\ pc = "idle"
    /\ call = [op |-> "init", arg |-> NoDiscovery, ret |-> "None"]
    /\ queued = {}
    /\ processed = EmptyMap
    /\ nseeds = 0
    /\ twin = [a |-> <<>>, b |-> <<>>, ds |-> NewSystem, raised |-> "None"]
    /\ fd = NoFrame
    /\ code = NoCode
    /\ memory = NoMemory
    /\ \E base \in StreamBases, offset \in StreamOffsets, verify \in BOOLEAN :
          stream = [NoStream EXCEPT !.base = base, !.pos = offset, !.verify_alignment = verify]

\* one typed read from the stream
StreamRead ==
    /\ stream.exc = "None" /\ stream.pos + 8 + 8 <= MaxPos
    /\ \E width \in {1, 2, 4, 8}, peek \in BOOLEAN : stream' = AutoAlignedRead(stream, width, peek)
    /\ UNCHANGED <<code, image, cache_by_fn_addr, cache_by_struct_addr, cache_by_called_fn_addr, ds,
                   raised, pc, call, queued, processed, nseeds, twin, fd, memory>>

SpecStream == InitStream /\ [][StreamRead]_vars

\* ------------------------------------------------------------ find_calls
MaxSection == 6
CallBytes == {0, 232, 255}
CallBases == {0, 16}

\* struct.unpack('<i', memory[offset + 1:offset + 5])[0], offset 0-based
Rel32(bytes, offset) ==
    bytes[offset + 2] + 256 * bytes[offset + 3] + 65536 * bytes[offset + 4]
        + 16777216 * (IF bytes[offset + 5] >= 128 THEN bytes[offset + 5] - 256
                      ELSE bytes[offset + 5])

\* search.find_calls(target, memory, base_address): for offset in
\* range(len(memory) - 5)
RECURSIVE FindCallsFrom(_, _, _, _)
FindCallsFrom(target, bytes, base_address, offset) ==
    IF offset >= Len(bytes) - 5 THEN <<>>
    ELSE (IF bytes[offset + 1] = 232 /\ base_address + offset + 5 + Rel32(bytes, offset) = target
          THEN <<offset + base_address>> ELSE <<>>)
         \o FindCallsFrom(target, bytes, base_address, offset + 1)

\* Image.find_calls(target, section_name): yield offset + base for each
\* offset that find_calls(target, memory, base) yields
Image_find_calls(target, bytes, base) ==
    [i \in 1..Len(FindCallsFrom(target, bytes, base, 0)) |->
        FindCallsFrom(target, bytes, base, 0)[i] + base]

InitCalls ==
    /\ image = [r \in Rvas |-> StringCell]
    /\ cache_by_fn_addr = EmptyMap
    /\ cache_by_struct_addr = EmptyMap
    /\ cache_by_called_fn_addr = EmptyMap
    /\ ds = NewSystem
    /\ raised = "None"
    /\ pc = "idle"
    /\ call = [op |-> "init", arg |-> NoDiscovery, ret |-> "None"]
    /\ queued = {}
    /\ processed = EmptyMap
    /\ nseeds = 0
    /\ twin = [a |-> <<>>, b |-> <<>>, ds |-> NewSystem, raised |-> "None"]
    /\ fd = NoFrame
    /\ code = NoCode
    /\ stream = NoStream
    /\ \E n \in 5..MaxSection, base \in CallBases, t \in 4..6 :
          \E bytes \in [1..n -> CallBytes] :
              memory = [NoMemory EXCEPT !.bytes = bytes, !.base = base, !.target = base + t]

\* list(find_calls(target, memory, base_address))
SearchFindCalls ==
    /\ memory.op = "none"
    /\ memory' = [memory EXCEPT !.op = "find_calls",
                    !.yields = FindCallsFrom(memory.target, memory.bytes, memory.base, 0)]
    /\ UNCHANGED <<code, image, cache_by_fn_addr, cache_by_struct_addr, cache_by_called_fn_addr, ds,
                   raised, pc, call, queued, processed, nseeds, twin, fd, stream>>

\* list(image.find_calls(target, section_name))
ImageFindCalls ==
    /\ memory.op = "none"
    /\ memory' = [memory EXCEPT !.op = "Image.find_calls",
                    !.yields = Image_find_calls(memory.target, memory.bytes, memory.base)]
    /\ UNCHANGED <<code, image, cache_by_fn_addr, cache_by_struct_addr, cache_by_called_fn_addr, ds,
                   raised, pc, call, queued, processed, nseeds, twin, fd, stream>>

NextCalls ==
    \/ SearchFindCalls
    \/ ImageFindCalls

SpecCalls == InitCalls /\ [][NextCalls]_vars

\* ------------------------------------------- a function parser, stepwise
\* MaxJumps: the entries list(parse_trampolines(code)) can hold before
\* allocation fails; MaxDepth: the interpreter's recursion limit
MaxJumps == 6
MaxDepth == 4

\* A prologue followed by CALL rel32 to target: a redirect
RedirectCell(target) ==
    Cell(FALSE, 0, "ok", "CALL", target, "ok", "ok", "ok", 0, <<>>,
         "ValueError", "ValueError", <<>>)

\* Code layouts at 1 and 2: jumps and redirects to either, and functions
ParseImages ==
    {im \in [FullRvas -> {JmpCell(1), JmpCell(2), RedirectCell(1), RedirectCell(2),
                          BadPreludeCell, RecordCell, StringCell,
                          StaticClassFnCell(CalleeAddr("GetPrivateStaticClassBody"), 3, 0, 0)}] :
        /\ \A r \in TextRvas :
              im[r] \in {JmpCell(1), JmpCell(2), RedirectCell(1), RedirectCell(2), BadPreludeCell,
                         StaticClassFnCell(CalleeAddr("GetPrivateStaticClassBody"), 3, 0, 0)}
        /\ im[3] = RecordCell
        /\ \A r \in FullTextRvas \ TextRvas : im[r] = BadPreludeCell
        /\ \A r \in FullRvas \ (FullTextRvas \cup {3}) : im[r] = StringCell}

InitParse ==
    /\ image \in ParseImages
    /\ cache_by_fn_addr = EmptyMap
    /\ cache_by_struct_addr = EmptyMap
    /\ cache_by_called_fn_addr = EmptyMap
    /\ ds = NewSystem
    /\ raised = "None"
    /\ pc = "idle"
    /\ call = [op |-> "init", arg |-> NoDiscovery, ret |-> "None"]
    /\ queued = {}
    /\ processed = EmptyMap
    /\ nseeds = 0
    /\ twin = [a |-> <<>>, b |-> <<>>, ds |-> NewSystem, raised |-> "None"]
    /\ fd = NoFrame
    /\ stream = NoStream
    /\ memory = NoMemory
    /\ code = NoCode

\* FunctionDiscovery.perform: code = CodeGrabber(image.get_stream(self.ptr), 2048)
PerformStart ==
    /\ code.phase = "idle"
    /\ \E ptr \in TextRvas : code' = [NoCode EXCEPT !.phase = "trampolines", !.addr = ptr]
    /\ UNCHANGED <<image, cache_by_fn_addr, cache_by_struct_addr, cache_by_called_fn_addr, ds,
                   raised, pc, call, queued, processed, nseeds, twin, fd, stream, memory>>

\* one iteration of the loop of parse_trampolines, consumed by list()
TrampolineStep ==
    /\ code.phase = "trampolines"
    /\ code' =
         IF image[code.addr].jmp = 0 THEN [code EXCEPT !.phase = "call"]
         ELSE IF ~InImage(image, image[code.addr].jmp)
         THEN [code EXCEPT !.phase = "raised", !.exc = "ValueError:OutsideStream"]
         ELSE IF Len(code.jumps) >= MaxJumps
         THEN [code EXCEPT !.phase = "raised", !.exc = "MemoryError"]
         ELSE [code EXCEPT !.addr = image[code.addr].jmp, !.jumps = Append(code.jumps, code.addr)]
    /\ UNCHANGED <<image, cache_by_fn_addr, cache_by_struct_addr, cache_by_called_fn_addr, ds,
                   raised, pc, call, queued, processed, nseeds, twin, fd, stream, memory>>

\* one activation of parse_cached_call: the prologue, then either a
\* redirecting CALL (jump and recurse) or the rest of the cached call
CachedCallStep ==
    /\ code.phase = "call"
    /\ code' =
         IF image[code.addr].prelude # "ok"
         THEN [code EXCEPT !.phase = "raised", !.exc = image[code.addr].prelude]
         ELSE IF image[code.addr].first # "CALL"
         THEN [code EXCEPT !.phase = "done", !.exc = parse_cached_call(image, code.addr, 0).exc]
         ELSE IF ~InImage(image, image[code.addr].redirect)
         THEN [code EXCEPT !.phase = "raised", !.exc = "ValueError:OutsideStream"]
         ELSE IF code.depth >= MaxDepth
         THEN [code EXCEPT !.phase = "raised", !.exc = "RecursionError"]
         ELSE [code EXCEPT !.addr = image[code.addr].redirect, !.depth = code.depth + 1]
    /\ UNCHANGED <<image, cache_by_fn_addr, cache_by_struct_addr, cache_by_called_fn_addr, ds,
                   raised, pc, call, queued, processed, nseeds, twin, fd, stream, memory>>

NextParse ==
    \/ PerformStart
    \/ TrampolineStep
    \/ CachedCallStep

SpecParse == InitParse /\ [][NextParse]_vars

\* ------------------------------------------------------------ properties
\* what the steps of the run are, read off the record of the last operation
IsQueueStep == call'.op = "queue" /\ nseeds' = nseeds + 1
IsProcessOneStep == call'.op = "process_one"
ProcessAllReturned == call.op = "process_all" /\ call.ret = "returned"
IsNullOrAllOnes(ptr) == ptr = 0 \/ ptr = -1

\* C4: queue(d) with d.ptr already in found changes nothing (pending, found
\* and every index stay as they are) and raises nothing, whatever d's kind.
C4_FoundDuplicateIgnored ==
    [][(IsQueueStep /\ call'.arg.ptr \in DOMAIN ds.found)
          => (ds' = ds /\ raised' = "None")]_vars

C4_Witness ==
    /\ call.op = "queue" /\ call.ret = "None"
    /\ call.arg.ptr \in DOMAIN ds.found
    /\ call.arg.cls = "Utf8Discovery"
    /\ ds.found[call.arg.ptr].cls = "StaticClassFnArtefact"

\* C7: queue(d) while a discovery e is pending at d.ptr: Keep leaves
\* everything unchanged; Replace puts d in e's place and changes nothing
\* else; NoMatch raises and leaves pending, found and the indices unchanged.
C7_PendingReconcile ==
    [][(IsQueueStep /\ call'.arg.ptr \in PendingPtrs(ds.pending))
          => \E d \in {call'.arg}, i \in {PendingIndex(ds.pending, call'.arg.ptr)} :
               \E c \in {Compare(d, ds.pending[i])} :
                 /\ c = "Keep" => (ds' = ds /\ raised' = "None")
                 /\ c = "Replace" => (ds' = [ds EXCEPT !.pending[i] = d] /\ raised' = "None")
                 /\ c = "NoMatch" => (ds' = ds /\ raised' = "ValueError:Conflict")]_vars

C7_Witness ==
    /\ call.op = "queue" /\ call.arg = ZConstructFunctionDiscovery(1, "Struct")
    /\ queued = {ZConstructFunctionDiscovery(1, "None"), ZConstructFunctionDiscovery(1, "Struct")}
    /\ ds.pending = <<ZConstructFunctionDiscovery(1, "Struct")>>
    /\ raised = "None"

\* C8: two function discoveries for one RVA, queued one after the other.
\* Same parser, exactly one hinted: pending ends up with the hinted one.
\* Same parser, equal hints or none: the first stays.  Different parsers,
\* or two unequal hints: the conflict error.
C8_HintReconcile ==
    [][(/\ IsQueueStep
        /\ Len(ds.pending) = 1
        /\ ds.pending[1].cls = "FunctionDiscovery"
        /\ call'.arg.cls = "FunctionDiscovery"
        /\ call'.arg.ptr = ds.pending[1].ptr)
          => \E d \in {call'.arg}, e \in {ds.pending[1]} :
               /\ (d.arg = e.arg /\ d.info # "None" /\ e.info = "None")
                     => (ds'.pending = <<d>> /\ raised' = "None")
               /\ (d.arg = e.arg /\ d.info = "None" /\ e.info # "None")
                     => (ds'.pending = <<e>> /\ raised' = "None")
               /\ (d.arg = e.arg /\ d.info = e.info)
                     => (ds'.pending = <<e>> /\ raised' = "None")
               /\ (d.arg # e.arg \/ (d.info # "None" /\ e.info # "None" /\ d.info # e.info))
                     => (ds'.pending = <<e>> /\ raised' = "ValueError:Conflict")]_vars

C8_Witness ==
    /\ call.op = "queue" /\ call.arg = ZConstructFunctionDiscovery(1, "None")
    /\ queued = {ZConstructFunctionDiscovery(1, "None"), ZConstructFunctionDiscovery(1, "Enum")}
    /\ ds.pending = <<ZConstructFunctionDiscovery(1, "Enum")>>
    /\ raised = "None"

\* C9: no pending discovery and no key of found is 0 or all-ones; queue
\* drops a discovery with such a pointer without changing any state.
C9_NullNeverTracked ==
    /\ [](/\ \A i \in 1..Len(ds.pending) : ~IsNullOrAllOnes(ds.pending[i].ptr)
          /\ \A k \in DOMAIN ds.found : ~IsNullOrAllOnes(k))
    /\ [][(IsQueueStep /\ IsNullOrAllOnes(call'.arg.ptr))
             => (ds' = ds /\ raised' = "None")]_vars

C9_Witness ==
    /\ call.op = "queue" /\ call.arg.ptr = ALL_ONES /\ ds.pending # <<>>
    /\ \E d \in queued : d.ptr = NULL_PTR

\* C5: when process_all has returned normally, every discovery that was
\* passed to queue has its ptr in found, unless the ptr is 0 or all-ones.
C5_AllQueuedFound ==
    ProcessAllReturned =>
        \A d \in queued : d.ptr \in DOMAIN ds.found \/ IsNullOrAllOnes(d.ptr)

C5_Witness ==
    /\ ProcessAllReturned
    /\ \E d \in queued : IsNullOrAllOnes(d.ptr)
    /\ \E d \in queued : d.cls = "StructDiscovery" /\ d.ptr \in DOMAIN ds.found
    /\ Cardinality(DOMAIN ds.found) = MaxRva

\* C6: once process_all has returned, pending is empty; with pending empty a
\* further process_one returns False and a further process_all changes
\* nothing.
C6_Quiescent ==
    /\ [](ProcessAllReturned => ds.pending = <<>>)
    /\ [][(ds.pending = <<>> /\ call'.op \in {"process_one", "process_all"})
             => /\ ds' = ds /\ raised' = "None" /\ queued' = queued /\ processed' = processed
                /\ call'.op = "process_one" => call'.ret = "False"]_vars

C6_Witness ==
    /\ call.op = "process_one" /\ call.ret = "False"
    /\ ds.pending = <<>>
    /\ ds.found # EmptyMap

\* C3: process_all halts on every image of the family, reference cycles
\* included: inside process_all the run reaches the return or an error, and
\* no ptr is performed more than once.
C3_Halts ==
    /\ (pc = "process_all") ~> (pc = "idle" \/ raised # "None")
    /\ [](\A p \in DOMAIN processed : processed[p] <= 1)

C3_Witness ==
    /\ ProcessAllReturned
    /\ image[1] = ZConstructCell("Struct", 3) /\ image[2] = StaticClassCell
    /\ image[3] = RecordCell
    /\ nseeds = 1 /\ ZConstructFunctionDiscovery(1, "Struct") \in queued
    /\ Tolerant(1) \in queued /\ Utf8Discovery(3) \in queued
    /\ FunctionDiscovery(2, "parse_StaticClass", "None") \in queued
    /\ \A r \in Rvas : r \in DOMAIN processed /\ processed[r] = 1

\* C1: for one image and one set of seeds, two runs that take the pending
\* discoveries in different orders end alike: both finish normally or both
\* fail, and when they finish their found maps are identical.
C1_OrderIndependent ==
    (FirstRunDone /\ SecondRunDone) =>
        /\ (raised = "None") <=> (twin.raised = "None")
        /\ (raised = "None" /\ twin.raised = "None") => ds.found = twin.ds.found

\* two StaticClass functions that name each other; the seeds are the strict
\* StaticClass discovery of the first and the tolerant discovery of the
\* second: one order finishes, the other raises the conflict error
C1_Witness ==
    /\ FirstRunDone /\ SecondRunDone
    /\ image[1] = StaticClassCell /\ image[2] = StaticClassCell
    /\ {twin.ds.found[p].cls : p \in DOMAIN twin.ds.found} =
           {"StaticClassFnArtefact", "StringArtefact"}
    /\ DOMAIN twin.ds.found = Rvas
    /\ twin.raised = "None"
    /\ raised = "ValueError:Conflict"

\* C2: when two discoveries for one RVA that compare as NoMatch have both
\* been passed to queue, the run does not end normally: process_all cannot
\* have returned.
C2_DisagreementFatal ==
    ProcessAllReturned =>
        ~\E d \in queued, e \in queued :
            /\ d.ptr = e.ptr /\ ~IsNullOrAllOnes(d.ptr)
            /\ Compare(d, e) = "NoMatch"

\* a tolerant discovery found a StaticClass function at 1; the strict
\* StaticClass discovery its explorer then queues for 1 is dropped
C2_Witness ==
    /\ ProcessAllReturned
    /\ nseeds = 1 /\ Tolerant(1) \in queued
    /\ FunctionDiscovery(1, "parse_StaticClass", "None") \in queued
    /\ ds.found[1].cls = "StaticClassFnArtefact"
    /\ ds.found[1].fn_type = "parse_StaticClass"

\* the code at a function discovery's ptr is not what its parser expects:
\* an unexpected instruction, or a wrong number of arguments
Deviates(cell, parser_fn) ==
    \/ cell.prelude # "ok" \/ cell.first \notin {"MOV", "CMP"}
    \/ cell.skeleton # "ok" \/ cell.marshal # "ok"
    \/ parser_fn = "parse_StaticClass" /\ Len(cell.parameters) # 14
    \/ parser_fn = "parse_ZConstruct" /\ Len(cell.parameters) # 2
    \/ parser_fn = "parse_ZConstructOrStaticClass" /\ Len(cell.parameters) \notin {2, 14}

\* C10: when process_one performs a function discovery whose code deviates
\* from the expected shape or passes a wrong number of arguments, it
\* registers an UnparsableFunction artefact at that ptr and raises nothing.
C10_ParseFailureLocal ==
    [][(/\ IsProcessOneStep
        /\ call'.arg.cls = "FunctionDiscovery"
        /\ Deviates(image[call'.arg.ptr], call'.arg.arg))
          => /\ raised' = "None"
             /\ call'.arg.ptr \in DOMAIN ds'.found
             /\ ds'.found[call'.arg.ptr].cls = "UnparsableFunctionArtefact"]_vars

\* the tolerant parser met a register-to-register MOV among the arguments
C10_Witness ==
    /\ call.op = "process_one" /\ call.ret = "raised"
    /\ call.arg = Tolerant(1)
    /\ image[1] = RegMoveCell
    /\ raised = "IndexError"
    /\ 1 \notin DOMAIN ds.found

\* the bytes at a string discovery's ptr are not a string of its encoding:
\* a disallowed character, or no terminator within the limit
StringUnreadable(cell, cls) ==
    \/ cls = "Utf8Discovery" /\ cell.utf8 # "ok"
    \/ cls = "Utf16Discovery" /\ cell.utf16 # "ok"

\* C11: when process_one performs a string discovery whose bytes do not
\* parse, the failure stays local: nothing is raised out of the worklist and
\* every other discovery that was pending is still pending or found, so
\* that process_all goes on to process it.
C11_StringFailureLocal ==
    [][(/\ IsProcessOneStep
        /\ call'.arg.cls \in {"Utf8Discovery", "Utf16Discovery"}
        /\ StringUnreadable(image[call'.arg.ptr], call'.arg.cls))
          => /\ raised' = "None"
             /\ \A i \in 2..Len(ds.pending) :
                   ds.pending[i].ptr \in PendingPtrs(ds'.pending) \cup DOMAIN ds'.found]_vars

\* inside process_all, the name of a StaticClass function is not a UTF-16
\* string: the error leaves the discovery of the function at 2 unprocessed
C11_Witness ==
    /\ pc = "process_all" /\ raised = "ValueError"
    /\ call.op = "process_one" /\ call.arg = Utf16Discovery(3)
    /\ image[1] = StaticClassCell /\ image[2] = StaticClassCell
    /\ ds.pending = <<FunctionDiscovery(2, "parse_StaticClass", "None")>>
    /\ 2 \notin DOMAIN ds.found

\* the seed index gives the code at rva a kind other than the kind of the
\* constructor that code calls
KindMismatch(rva) ==
    /\ rva \in DOMAIN cache_by_fn_addr
    /\ Lookup(cache_by_called_fn_addr, image[rva].called_fn_addr) # "None"
    /\ cache_by_fn_addr[rva] # Lookup(cache_by_called_fn_addr, image[rva].called_fn_addr)

\* C12: every ZConstruct function artefact in found, from the strict or
\* from the tolerant parser, has the kind the constructor table gives the
\* function it calls, and the kind the seed index gives its own start RVA.
C12_KindAgrees ==
    \A p \in DOMAIN ds.found :
        ds.found[p].cls = "ZConstructFnArtefact" =>
            /\ Lookup(cache_by_called_fn_addr, ds.found[p].called_fn_addr)
                  = ds.found[p].called_method_type
            /\ Lookup(cache_by_fn_addr, ds.found[p].start_addr)
                  = ds.found[p].called_method_type

\* the tolerant parser made a ZConstruct artefact at 1 while the seed index
\* disagrees with the code at 2
C12_Witness ==
    /\ Tolerant(1) \in queued /\ nseeds = 1
    /\ 1 \in DOMAIN ds.found /\ ds.found[1].cls = "ZConstructFnArtefact"
    /\ ds.found[1].called_method_type = "Enum"
    /\ KindMismatch(2)
    /\ raised = "None"

\* C13: the tolerant parser records a 2-argument function whose seed-index
\* kind differs from the kind of the constructor it calls as an
\* UnparsableFunction artefact and raises nothing; the strict parser raises.
C13_TolerantMismatchLocal ==
    [][(/\ IsProcessOneStep
        /\ call'.arg.cls = "FunctionDiscovery"
        /\ Len(image[call'.arg.ptr].parameters) = 2
        /\ KindMismatch(call'.arg.ptr))
          => /\ call'.arg.arg = "parse_ZConstructOrStaticClass" =>
                  /\ raised' = "None"
                  /\ call'.arg.ptr \in DOMAIN ds'.found
                  /\ ds'.found[call'.arg.ptr].cls = "UnparsableFunctionArtefact"
             /\ call'.arg.arg = "parse_ZConstruct" => raised' = "ValueError:KindMismatch"]_vars

\* the tolerant parser met the mismatch and raised
C13_Witness ==
    /\ call.op = "process_one" /\ call.arg = Tolerant(1)
    /\ KindMismatch(1)
    /\ raised = "ValueError:KindMismatch"
    /\ 1 \notin DOMAIN ds.found

C15_FiveOrFatal ==
    call.op = "analyse_image" =>
        IF raised = "None"
        THEN /\ Len(fd.known) = 5
             /\ {fd.known[i].key : i \in 1..5} = ZConstructFnType
             /\ Cardinality({fd.known[i].value.fn_addr : i \in 1..5}) = 5
        ELSE /\ ds = NewSystem
             /\ queued = {}
             /\ fd.seeds = <<>>

\* both outcomes of seed analysis: five constructors identified on an image
\* with six seed functions
C15_Witness ==
    /\ call.op = "analyse_image" /\ raised = "None"
    /\ Len(fd.seeds) = 6

\* seed analysis failed on an image without seed functions
C15_WitnessNoSeeds ==
    /\ call.op = "analyse_image" /\ raised = "AssertionError"
    /\ image = NoSeedImage

\* C18: analyses of different images share no mutable state: after the
\* seed analysis of an image the three lookup tables hold exactly the
\* entries of that image, whatever was analysed before.
C18_NoSharedState ==
    (call.op = "analyse_image" /\ raised = "None") =>
        [by_fn |-> cache_by_fn_addr, by_struct |-> cache_by_struct_addr,
         by_called |-> cache_by_called_fn_addr]
            = Populate([by_fn |-> EmptyMap, by_struct |-> EmptyMap, by_called |-> EmptyMap],
                       fd.known)

\* the seed analysis of a second image succeeded after that of a first
C18_Witness ==
    /\ call.op = "analyse_image" /\ raised = "None"
    /\ fd.loads = 1
    /\ cache_by_called_fn_addr # EmptyMap

\* the jumps followed from the discovery that process_one has just performed
JumpsOfCall == parse_trampolines(image, call'.arg.ptr, <<>>)

\* C16: a function discovery that goes through a chain of k >= 1 jumps
\* leaves k trampoline artefacts, each retrievable from found_trampolines
\* under the RVA of its own jump and each pointing to the final function
\* artefact.
C16_TrampolinesIndexed ==
    [][(/\ IsProcessOneStep
        /\ call'.arg.cls = "FunctionDiscovery"
        /\ call'.arg.ptr \notin DOMAIN ds.found
        /\ raised' = "None"
        /\ JumpsOfCall.exc = "None"
        /\ Len(JumpsOfCall.jumps) >= 1)
       => \A i \in 1..Len(JumpsOfCall.jumps) :
            /\ JumpsOfCall.jumps[i] \in DOMAIN ds'.found_trampolines
            /\ ds'.found_trampolines[JumpsOfCall.jumps[i]].start_addr = JumpsOfCall.jumps[i]
            /\ ds'.found_trampolines[JumpsOfCall.jumps[i]].target
                   = <<ds'.found[call'.arg.ptr]>>]_vars

\* a discovery through two jumps has been performed: the function it
\* reaches is registered and one trampoline is in the index
C16_Witness ==
    /\ call.op = "process_one" /\ call.arg.cls = "FunctionDiscovery" /\ raised = "None"
    /\ Len(parse_trampolines(image, call.arg.ptr, <<>>).jumps) = 2
    /\ parse_trampolines(image, call.arg.ptr, <<>>).exc = "None"
    /\ call.arg.ptr \in DOMAIN ds.found_trampolines
    /\ IsFunctionArtefact(ds.found[call.arg.ptr])

\* C17: strings found lie in .rdata and parsed functions in .text.
C17_SectionsRespected ==
    \A p \in DOMAIN ds.found :
        /\ ds.found[p].cls = "StringArtefact" => ds.found[p].start_addr \in FullRvas \ FullTextRvas
        /\ ds.found[p].cls \in {"StaticClassFnArtefact", "ZConstructFnArtefact"}
               => ds.found[p].start_addr \in FullTextRvas

\* the explorer of a params record has followed its NameUTF8 pointer into
\* .text and the string discovery there has been performed
C17_Witness ==
    /\ raised = "None"
    /\ \E p \in DOMAIN ds.found_strings : p \in FullTextRvas /\ image[3] = NameInTextCell

\* C20: in an auto-align stream a 2-, 4- or 8-byte read starts at an RVA
\* that is a multiple of its width, the cursor having been advanced by
\* the smallest non-negative amount that achieves this, whatever the base
\* and the offset; a 1-byte read starts where the cursor was.
C20_ReadsAligned ==
    (stream.op = "read" /\ stream.exc = "None") =>
        IF stream.width = 1 THEN stream.start = stream.base + stream.before
        ELSE /\ stream.start % stream.width = 0
             /\ stream.start - (stream.base + stream.before)
                    = (stream.width - ((stream.base + stream.before) % stream.width)) % stream.width

\* a multi-byte read from a stream whose base is not a multiple of the width
C20_Witness ==
    /\ stream.op = "read" /\ stream.exc = "None"
    /\ stream.width = 8
    /\ stream.base % 8 # 0

\* C19: Image.find_calls yields exactly the RVAs s of the section at which
\* the byte is 0xE8 and s + 5 + rel32 is the target, a call in the last
\* five bytes of the section included.
C19_FindCallsExact ==
    memory.op = "Image.find_calls" =>
        {memory.yields[i] : i \in 1..Len(memory.yields)}
            = {memory.base + o : o \in {x \in 0..(Len(memory.bytes) - 5) :
                    /\ memory.bytes[x + 1] = 232
                    /\ memory.base + x + 5 + Rel32(memory.bytes, x) = memory.target}}

\* Image.find_calls has searched a section that ends with a CALL to the target
C19_Witness ==
    /\ memory.op = "Image.find_calls"
    /\ memory.bytes[Len(memory.bytes) - 4] = 232
    /\ memory.base + Len(memory.bytes) + Rel32(memory.bytes, Len(memory.bytes) - 5) = memory.target

\* C23: an RVA that is a key of found keeps its artefact for the rest of
\* the run, and a process_one that performs a discovery adds exactly one
\* key to found, the discovery's own RVA, however many artefacts the
\* parser yields.
C23_FoundStable ==
    [][/\ \A k \in DOMAIN ds.found : k \in DOMAIN ds'.found /\ ds'.found[k] = ds.found[k]
       /\ (IsProcessOneStep /\ ds.pending # <<>>)
             => /\ call'.arg.ptr \notin DOMAIN ds.found
                /\ DOMAIN ds'.found = DOMAIN ds.found \cup {call'.arg.ptr}]_vars

\* a discovery through two jumps was performed while another RVA was
\* already in found
C23_Witness ==
    /\ call.op = "process_one" /\ call.arg.cls = "FunctionDiscovery" /\ raised = "None"
    /\ Len(parse_trampolines(image, call.arg.ptr, <<>>).jumps) = 2
    /\ parse_trampolines(image, call.arg.ptr, <<>>).exc = "None"
    /\ Cardinality(DOMAIN ds.found) >= 2

\* the categorised RVA indices that have k as a key
IndicesHolding(k) ==
    {n \in {"found_strings", "found_structs", "found_functions", "found_trampolines"} :
        k \in DOMAIN ds[n]}

\* C24: every key of found is a key of exactly one of the indices of
\* strings, structs, functions and trampolines, that index holds the same
\* artefact as found, and the artefact starts at the key.
C24_IndicesPartitionFound ==
    \A k \in DOMAIN ds.found :
        /\ Cardinality(IndicesHolding(k)) = 1
        /\ \A n \in IndicesHolding(k) : ds[n][k] = ds.found[k]
        /\ ds.found[k].start_addr = k

\* a function reached through a jump is in found next to a record
C24_Witness ==
    /\ raised = "None"
    /\ \E k \in DOMAIN ds.found_trampolines : k \in DOMAIN ds.found_functions
    /\ ds.found_structs # EmptyMap

\* C25: between calls no RVA is both pending and in found, and no two
\* pending discoveries are for the same RVA (each is stored under its own);
\* a record that points to its own RVA is not queued again by its explorer.
C25_PendingFoundDisjoint ==
    /\ PendingPtrs(ds.pending) \cap DOMAIN ds.found = {}
    /\ \A i \in 1..Len(ds.pending), j \in 1..Len(ds.pending) :
          ds.pending[i].ptr = ds.pending[j].ptr => i = j

\* the explorer of the record at 3 has queued a string discovery for the
\* record's own RVA, its NameUTF8
C25_Witness ==
    /\ raised = "None"
    /\ 3 \in DOMAIN ds.found_structs
    /\ Word(image[3], 4) = 3
    /\ Utf8Discovery(3) \in queued
    /\ ds.pending # <<>>

\* C26: performing one function discovery terminates for every code
\* layout: the walk along the jumps takes no jump twice, so it ends after
\* at most as many steps as there are jumps, and a redirect that leads back
\* to itself ends in an error.
C26_ParseTerminates ==
    /\ \A i \in 1..Len(code.jumps), j \in 1..Len(code.jumps) :
          code.jumps[i] = code.jumps[j] => i = j
    /\ code.depth <= MaxDepth

\* the walk along the jumps is back at a jump it has already taken
C26_Witness ==
    /\ code.phase = "trampolines"
    /\ \E i \in 1..Len(code.jumps) : code.jumps[i] = code.addr

\* ------------------------------------------------------------ library
\* The pure functions of the package, each applied once to an input drawn
\* from a bounded set; call holds the function, its input and its result.
SeqsUpTo(S, n) == UNION {[1..k -> S] : k \in 0..n}

InitLib ==
    /\ image = [r \in Rvas |-> StringCell]
    /\ cache_by_fn_addr = EmptyMap
    /\ cache_by_struct_addr = EmptyMap
    /\ cache_by_called_fn_addr = EmptyMap
    /\ ds = NewSystem
    /\ raised = "None"
    /\ pc = "idle"
    /\ call = [op |-> "init", arg |-> NoDiscovery, ret |-> "None"]
    /\ queued = {}
    /\ processed = EmptyMap
    /\ nseeds = 0
    /\ twin = [a |-> <<>>, b |-> <<>>, ds |-> NewSystem, raised |-> "None"]
    /\ fd = NoFrame
    /\ stream = NoStream
    /\ memory = NoMemory
    /\ code = NoCode

\* ------------------------------------------------------------ zero-terminated strings
MaxText == 3

\* DEFAULT_ALLOW_CHARS as code points: a-z, A-Z, 0-9 and _.=-+*()/\:,;#
DEFAULT_ALLOW_CHARS ==
    (97..122) \cup (65..90) \cup (48..57)
        \cup {95, 46, 61, 45, 43, 42, 40, 41, 47, 92, 58, 44, 59, 35}

\* bytes of the buffers: NUL, 'A', the control character 0x01 and 0xFF,
\* which occurs in no UTF-8 encoding
Utf8Bytes == {0, 65, 1, 255}
\* bytes of the UTF-16 buffers: NUL, 'A' and 0xD8, the high byte of a lone
\* high surrogate
Utf16Bytes == {0, 65, 216}

\* self._memory[start:end], positions 0-based
Slice(mem, start, end) ==
    SubSeq(mem, start + 1, IF end < Len(mem) THEN end ELSE Len(mem))

\* the index (0-based) at which the loop breaks, -1 when it runs to its end
FirstZero(units) ==
    IF \E i \in 1..Len(units) : units[i] = 0
    THEN (CHOOSE i \in 1..Len(units) :
            units[i] = 0 /\ \A j \in 1..(i - 1) : units[j] # 0) - 1
    ELSE -1

\* bytes.decode('utf-8') over Utf8Bytes: the bytes below 0x80 are their own
\* code points, 0xFF is an invalid start byte
Utf8Decode(raw) ==
    IF \E i \in 1..Len(raw) : raw[i] >= 128
    THEN [ok |-> FALSE, text |-> <<>>]
    ELSE [ok |-> TRUE, text |-> raw]

\* memory_slice.cast('H'): little-endian 16-bit units
Words(slice) == [i \in 1..(Len(slice) \div 2) |-> slice[2 * i - 1] + 256 * slice[2 * i]]

\* bytes.decode('utf-16') over the units: a unit in D800..DBFF that no unit
\* in DC00..DFFF follows is a lone surrogate, a unit in DC00..DFFF that
\* follows no high surrogate too; a leading FFFE or FEFF is a byte order mark
Utf16Decode(units) ==
    IF \E i \in 1..Len(units) :
          \/ /\ units[i] >= 55296 /\ units[i] <= 56319
             /\ ~(i < Len(units) /\ units[i + 1] >= 56320 /\ units[i + 1] <= 57343)
          \/ /\ units[i] >= 56320 /\ units[i] <= 57343
             /\ ~(i > 1 /\ units[i - 1] >= 55296 /\ units[i - 1] <= 56319)
          \/ units[i] \in {65279, 65534}
    THEN [ok |-> FALSE, text |-> <<>>]
    ELSE [ok |-> TRUE, text |-> units]

Returned(text, pos) == [kind |-> "text", text |-> text, exc |-> "None", pos |-> pos]
NoValue(pos)        == [kind |-> "None", text |-> <<>>, exc |-> "None", pos |-> pos]
Failed(exc, pos)    == [kind |-> "raise", text |-> <<>>, exc |-> exc, pos |-> pos]

\* allow_chars is DEFAULT_ALLOW_CHARS ("default") or None
Disallowed(text, allow_chars) ==
    allow_chars # "None" /\ \E i \in 1..Len(text) : text[i] \notin DEFAULT_ALLOW_CHARS

\* MemoryStream.utf8zt, lines 160-181
utf8zt(mem, start, allow_chars, limit) ==
    LET memory_slice == Slice(mem, start, start + limit)
        z == FirstZero(memory_slice)
        pos == start + (IF z = -1 THEN Len(memory_slice) ELSE z + 1)
        decoded == Utf8Decode(SubSeq(memory_slice, 1, z))
    IN  IF z = -1 THEN Failed("ValueError:String too long", pos)
        ELSE IF ~decoded.ok THEN Failed("UnicodeDecodeError", pos)
        ELSE IF Disallowed(decoded.text, allow_chars) THEN Failed("ValueError:Invalid char", pos)
        ELSE Returned(decoded.text, pos)

\* MemoryStream.utf8zt_safe, lines 183-204: the loop has no else branch, so
\* size stays len(memory_slice) when no byte of the slice is zero
utf8zt_safe(mem, start, allow_chars, limit) ==
    LET memory_slice == Slice(mem, start, start + limit)
        z == FirstZero(memory_slice)
        size == IF z = -1 THEN Len(memory_slice) ELSE z
        pos == start + (IF z = -1 THEN Len(memory_slice) ELSE z + 1)
        decoded == Utf8Decode(SubSeq(memory_slice, 1, size))
    IN  IF ~decoded.ok THEN NoValue(pos)
        ELSE IF Disallowed(decoded.text, allow_chars) THEN NoValue(pos)
        ELSE Returned(decoded.text, pos)

\* MemoryStream.utf16zt, lines 206-236: cast('H') raises TypeError when the
\* slice has an odd number of bytes
utf16zt(mem, start, allow_chars, limit) ==
    LET memory_slice == Slice(mem, start, start + limit * 2)
        words == Words(memory_slice)
        z == FirstZero(words)
        pos == start + 2 * (IF z = -1 THEN Len(words) ELSE z + 1)
        decoded == Utf16Decode(SubSeq(words, 1, z))
    IN  IF Len(memory_slice) % 2 # 0 THEN Failed("TypeError", start)
        ELSE IF z = -1 THEN Failed("ValueError:String too long", pos)
        ELSE IF ~decoded.ok THEN Failed("UnicodeDecodeError", pos)
        ELSE IF Disallowed(decoded.text, allow_chars) THEN Failed("ValueError:Invalid char", pos)
        ELSE Returned(decoded.text, pos)

\* MemoryStream.utf16zt_safe, lines 238-264
utf16zt_safe(mem, start, allow_chars, limit) ==
    LET memory_slice == Slice(mem, start, start + limit * 2)
        words == Words(memory_slice)
        z == FirstZero(words)
        size == IF z = -1 THEN Len(words) ELSE z
        pos == start + 2 * (IF z = -1 THEN Len(words) ELSE z + 1)
        decoded == Utf16Decode(SubSeq(words, 1, size))
    IN  IF Len(memory_slice) % 2 # 0 THEN Failed("TypeError", start)
        ELSE IF ~decoded.ok THEN NoValue(pos)
        ELSE IF Disallowed(decoded.text, allow_chars) THEN NoValue(pos)
        ELSE Returned(decoded.text, pos)

\* both readers of UTF-8 text applied to one stream position
ReadUtf8 ==
    /\ call.op = "init"
    /\ \E mem \in SeqsUpTo(Utf8Bytes, MaxText), start \in 0..(MaxText - 1),
          allow_chars \in {"default", "None"}, limit \in 1..MaxText :
          call' = [op |-> "utf8zt",
                   arg |-> [mem |-> mem, start |-> start, allow_chars |-> allow_chars,
                            limit |-> limit],
                   ret |-> [plain |-> utf8zt(mem, start, allow_chars, limit),
                            safe |-> utf8zt_safe(mem, start, allow_chars, limit)]]
    /\ UNCHANGED <<code, image, cache_by_fn_addr, cache_by_struct_addr, cache_by_called_fn_addr,
                   ds, raised, pc, queued, processed, nseeds, twin, fd, stream, memory>>

\* both readers of UTF-16 text applied to one stream position
ReadUtf16 ==
    /\ call.op = "init"
    /\ \E mem \in SeqsUpTo(Utf16Bytes, MaxText + 1), start \in {0, 2},
          allow_chars \in {"default", "None"}, limit \in 1..2 :
          call' = [op |-> "utf16zt",
                   arg |-> [mem |-> mem, start |-> start, allow_chars |-> allow_chars,
                            limit |-> limit],
                   ret |-> [plain |-> utf16zt(mem, start, allow_chars, limit),
                            safe |-> utf16zt_safe(mem, start, allow_chars, limit)]]
    /\ UNCHANGED <<code, image, cache_by_fn_addr, cache_by_struct_addr, cache_by_called_fn_addr,
                   ds, raised, pc, queued, processed, nseeds, twin, fd, stream, memory>>

NextStrings ==
    \/ ReadUtf8
    \/ ReadUtf16

SpecStrings == InitLib /\ [][NextStrings]_vars

\* C21: the safe readers of zero-terminated text are the failing readers
\* with the failure turned into 'no value': on every buffer, start, set of
\* allowed characters and limit the safe reader returns no value exactly
\* when the failing reader fails, and otherwise both return the same text.
C21_SafeReadersAgree ==
    call.op \in {"utf8zt", "utf16zt"} =>
        /\ call.ret.safe.kind = "None" <=> call.ret.plain.kind = "raise"
        /\ call.ret.plain.kind = "text" => call.ret.safe = call.ret.plain

\* no zero byte within the limit: the failing reader raises 'String too
\* long', the safe reader returns the bytes up to the limit as text
C21_Witness ==
    /\ call.op = "utf8zt"
    /\ call.ret.plain.exc = "ValueError:String too long"
    /\ call.ret.safe.kind = "text"

\* ------------------------------------------------------------ byte patterns
MaxMem == 3
MaxEntries == 2

RECURSIVE BitAnd(_, _)
\* value & mask on non-negative integers
BitAnd(a, b) ==
    IF a = 0 \/ b = 0 THEN 0
    ELSE (a % 2) * (b % 2) + 2 * BitAnd(a \div 2, b \div 2)

ByteMatch(mask, value) == [mask |-> mask, value |-> value]

\* ByteMatch.matches, line 34
ByteMatch_matches(self, value) == BitAnd(value, self.mask) = self.value

RECURSIVE BitPatternFrom(_, _, _, _)
\* the loop of _parse_bit_pattern, lines 134-146, over the eight characters
BitPatternFrom(pattern, i, mask, value) ==
    IF i > Len(pattern) THEN ByteMatch(mask, value)
    ELSE IF pattern[i] = "0" THEN BitPatternFrom(pattern, i + 1, 2 * mask + 1, 2 * value)
    ELSE IF pattern[i] = "1" THEN BitPatternFrom(pattern, i + 1, 2 * mask + 1, 2 * value + 1)
    ELSE BitPatternFrom(pattern, i + 1, 2 * mask, 2 * value)

\* _parse_bit_pattern on the characters between the brackets
parse_bit_pattern(pattern) == BitPatternFrom(pattern, 1, 0, 0)

\* the entries compile_pattern builds: a hex byte, the wildcard, a bit
\* pattern; and an entry no pattern text yields, with mask 0 and a value
PatternEntries ==
    {ByteMatch(255, 160), ByteMatch(0, 0),
     parse_bit_pattern(<<"1", "0", "1", "0", ".", ".", ".", ".">>),
     parse_bit_pattern(<<".", ".", ".", ".", "0", "0", "1", "1">>),
     ByteMatch(0, 173)}
PatternBytes == {0, 160, 163, 255}

\* for i, match in enumerate(self.entries): if not match.matches(...): break
MatchesAt(entries, mem, offset) ==
    \A i \in 1..Len(entries) : ByteMatch_matches(entries[i], mem[offset + i])

RECURSIVE SearchFrom_ShortRange(_, _, _)
SearchFrom_ShortRange(entries, mem, offset) ==
    IF offset >= Len(mem) - Len(entries) THEN <<>>
    ELSE (IF MatchesAt(entries, mem, offset) THEN <<offset>> ELSE <<>>)
            \o SearchFrom_ShortRange(entries, mem, offset + 1)

RECURSIVE SearchFrom(_, _, _)
\* for offset in range(len(memory) - len(self.entries) + 1), lines 62-67
SearchFrom(entries, mem, offset) ==
    IF offset >= Len(mem) - Len(entries) + 1 THEN <<>>
    ELSE (IF MatchesAt(entries, mem, offset) THEN <<offset>> ELSE <<>>)
            \o SearchFrom(entries, mem, offset + 1)

\* list(Pattern(entries).search(memory))
Pattern_search(entries, mem) == SearchFrom(entries, mem, 0)

PatternSearch ==
    /\ call.op = "init"
    /\ \E entries \in SeqsUpTo(PatternEntries, MaxEntries), mem \in SeqsUpTo(PatternBytes, MaxMem) :
          call' = [op |-> "Pattern.search",
                   arg |-> [entries |-> entries, memory |-> mem],
                   ret |-> Pattern_search(entries, mem)]
    /\ UNCHANGED <<code, image, cache_by_fn_addr, cache_by_struct_addr, cache_by_called_fn_addr,
                   ds, raised, pc, queued, processed, nseeds, twin, fd, stream, memory>>

SpecPattern == InitLib /\ [][PatternSearch]_vars

\* the low four and the high four bits of a byte
LowBits(b)  == b % 16
HighBits(b) == b \div 16

\* C22: Pattern.search yields, in ascending order, exactly the offsets o
\* with 0 <= o <= len(memory) - n at which every entry i has
\* (memory[o+i] AND mask_i) = value_i; an entry with mask 0 matches exactly
\* when its value is 0, so the wildcard matches every byte and (0, 0xAD)
\* none; a pattern longer than the memory yields nothing.
C22_SearchYieldsMatches ==
    call.op = "Pattern.search" =>
        LET entries == call.arg.entries
            mem == call.arg.memory
            ret == call.ret
            Fits(e, b) ==
                CASE e.mask = 255 -> b = e.value
                  [] e.mask = 240 -> HighBits(b) * 16 = e.value
                  [] e.mask = 15  -> LowBits(b) = e.value
                  [] e.mask = 0   -> e.value = 0
        IN  /\ \A i \in 1..Len(ret), j \in 1..Len(ret) : i < j => ret[i] < ret[j]
            /\ {ret[i] : i \in 1..Len(ret)} =
                 {o \in 0..(Len(mem) - Len(entries)) :
                     \A i \in 1..Len(entries) : Fits(entries[i], mem[o + i])}
            /\ Len(entries) > Len(mem) => ret = <<>>

\* a search with a masked entry and a wildcard that matches at two offsets,
\* the second one the last offset at which the pattern fits
C22_Witness ==
    /\ call.op = "Pattern.search"
    /\ Len(call.arg.entries) = 2
    /\ call.arg.entries[1].mask = 240 /\ call.arg.entries[2] = ByteMatch(0, 0)
    /\ call.ret = <<0, 1>>
    /\ Len(call.arg.memory) = 3

\* ------------------------------------------------------------ PropertyParams
\* Image._extract_fixed_version_info, lieftools.py lines 162-176: four
\* 16-bit numbers, trailing zeros removed
RECURSIVE StripZeros(_)
StripZeros(version) ==
    IF version # <<>> /\ version[Len(version)] = 0
    THEN StripZeros(SubSeq(version, 1, Len(version) - 1))
    ELSE version

version_tuple(version_ms, version_ls) ==
    StripZeros(<<version_ms \div 65536, version_ms % 65536,
                 version_ls \div 65536, version_ls % 65536>>)

TupleLess_NoPrefix(a, b) ==
    \E k \in 1..(IF Len(a) < Len(b) THEN Len(a) ELSE Len(b)) :
        a[k] < b[k] /\ \A i \in 1..(k - 1) : a[i] = b[i]

\* a < b on tuples of integers, as Python compares them
TupleLess(a, b) ==
    \/ Len(a) < Len(b) /\ \A i \in 1..Len(a) : a[i] = b[i]
    \/ \E k \in 1..(IF Len(a) < Len(b) THEN Len(a) ELSE Len(b)) :
          a[k] < b[k] /\ \A i \in 1..(k - 1) : a[i] = b[i]

\* the bytes of a record: the Flags field (offsets 24..27) holds the kind
\* and the type flag, offset 35 the byte top, every other offset fill, the
\* highest byte of every other dword 0
ByteAt(mem, p) ==
    IF p = 24 THEN mem.kind + mem.flag
    ELSE IF p \in 25..27 THEN 0
    ELSE IF p = 35 THEN mem.top
    ELSE IF p % 4 = 3 THEN 0
    ELSE mem.fill

FormatWidth(fmt) ==
    CASE fmt = "u8" -> 1 [] fmt = "u16" -> 2 [] fmt \in {"u32", "s32"} -> 4 [] fmt = "u64" -> 8

\* struct.unpack of the little-endian formats <B, <H, <I, <i; a <Q is kept
\* as its eight bytes
Unpack(fmt, mem, p) ==
    CASE fmt = "u8"  -> ByteAt(mem, p)
      [] fmt = "u16" -> ByteAt(mem, p) + 256 * ByteAt(mem, p + 1)
      [] fmt = "u32" -> ByteAt(mem, p) + 256 * ByteAt(mem, p + 1) + 65536 * ByteAt(mem, p + 2)
                            + 16777216 * ByteAt(mem, p + 3)
      [] fmt = "s32" -> ByteAt(mem, p) + 256 * ByteAt(mem, p + 1) + 65536 * ByteAt(mem, p + 2)
                            + 16777216 * (IF ByteAt(mem, p + 3) >= 128
                                          THEN ByteAt(mem, p + 3) - 256 ELSE ByteAt(mem, p + 3))
      [] fmt = "u64" -> [j \in 1..8 |-> ByteAt(mem, p + j - 1)]

RECURSIVE ReadFields(_, _, _, _)
\* the reads of the listed fields, in order, each through the auto-aligned
\* stream made by AutoAlignedMemoryStream.from_stream
ReadFields(mem, fields, i, st) ==
    IF i > Len(fields) THEN <<>>
    ELSE <<[field |-> fields[i][1], fmt |-> fields[i][2],
            pos |-> AutoAlignedRead(st, FormatWidth(fields[i][2]), FALSE).start - st.base,
            value |-> Unpack(fields[i][2], mem,
                             AutoAlignedRead(st, FormatWidth(fields[i][2]), FALSE).start - st.base)]>>
         \o ReadFields(mem, fields, i + 1, AutoAlignedRead(st, FormatWidth(fields[i][2]), FALSE))

Bool == 12

\* the reads of the match statement, lines 130-167
PropertyTail(kind, before_5_3, before_5_1) ==
    CASE kind = 22 -> <<<<"ArrayFlags", IF before_5_3 THEN "u32" ELSE "u8">>>>
      [] kind = Bool -> (IF before_5_3
                         THEN <<<<"ElementSize", "u32">>, <<"SizeOfOuter", "u64">>>>
                         ELSE <<<<"ElementSize", "u16">>, <<"SizeOfOuter", "u16">>>>)
                           \o <<<<"SetBitFunc_ptr", "u64">>>>
      [] kind \in {0, 30} -> <<<<"EnumFunc_ptr", "u64">>>>
      [] kind = 17 -> IF before_5_1
                      THEN <<<<"MetaClassFunc_ptr", "u64">>, <<"ClassFunc_ptr", "u64">>>>
                      ELSE <<<<"ClassFunc_ptr", "u64">>, <<"MetaClassFunc_ptr", "u64">>>>
      [] kind = 26 -> <<<<"SignatureFunctionFunc_ptr", "u64">>>>
      [] kind = 31 -> <<<<"PropertyClassFunc_ptr", "u64">>>>
      [] kind = 19 -> <<<<"InterfaceClassFunc_ptr", "u64">>>>
      [] kind = 23 -> <<<<"MapFlags", IF before_5_3 THEN "u32" ELSE "u8">>>>
      [] kind \in {27, 28} -> <<<<"SignatureFunctionFunc_ptr", "u64">>>>
      [] kind \in {18, 14, 15, 16} -> <<<<"ClassFunc_ptr", "u64">>>>
      [] kind = 13 -> <<<<"MetaClassFunc_ptr", "u64">>>>
      [] kind = 25 -> <<<<"ScriptStructFunc_ptr", "u64">>>>
      [] OTHER -> <<>>

\* PropertyParams.deserialize, lines 103-167; Flags is at offset 24 for
\* every version, PropertyTypeFull keeps value & 0x3f as the kind, and
\* EPropertyGenFlags has the members 0x00..0x20
PropertyParams_deserialize(mem, ue_version_tuple) ==
    LET kind == BitAnd(Unpack("u32", mem, 24), 63)
        before_5_3 == TupleLess(ue_version_tuple, <<5, 3>>)
        before_5_1 == TupleLess(ue_version_tuple, <<5, 1>>)
        fields ==
            <<<<"NameUTF8_ptr", "u64">>, <<"RepNotifyFuncUTF8_ptr", "u64">>,
              <<"PropertyFlags", "u64">>, <<"Flags", "u32">>, <<"ObjectFlags", "u32">>>>
            \o (IF before_5_3 THEN <<<<"ArrayDim", "s32">>>> ELSE <<>>)
            \o (IF ~before_5_1
                THEN <<<<"SetterFunc_ptr", "u64">>, <<"GetterFunc_ptr", "u64">>>> ELSE <<>>)
            \o (IF ~before_5_3 THEN <<<<"ArrayDim", "u16">>>> ELSE <<>>)
            \o (IF kind # Bool
                THEN <<<<"Offset", IF before_5_3 THEN "u32" ELSE "u16">>>> ELSE <<>>)
            \o PropertyTail(kind, before_5_3, before_5_1)
    IN  IF kind > 32 THEN [exc |-> "ValueError", reads |-> <<>>]
        ELSE [exc |-> "None", reads |-> ReadFields(mem, fields, 1, NoStream)]

\* the versions of the images: major.minor.patch.0
VersionNumbers == {<<major, minor, patch>> : major \in {4, 5}, minor \in {0, 1, 2, 3, 27},
                                              patch \in {0, 1}}
\* Byte, Int, Bool, Class, Object, Array and a number that is no kind
PropertyKinds == {0, 3, 12, 17, 18, 22, 33}

DeserializeProperty ==
    /\ call.op = "init"
    /\ \E v \in VersionNumbers, kind \in PropertyKinds, flag \in {0, 64}, fill \in {0, 1, 255},
          top \in {0, 255} :
          call' = [op |-> "PropertyParams.deserialize",
                   arg |-> [version |-> v,
                            mem |-> [kind |-> kind, flag |-> flag, fill |-> fill, top |-> top]],
                   ret |-> PropertyParams_deserialize(
                               [kind |-> kind, flag |-> flag, fill |-> fill, top |-> top],
                               version_tuple(v[1] * 65536 + v[2], v[3] * 65536))]
    /\ UNCHANGED <<code, image, cache_by_fn_addr, cache_by_struct_addr, cache_by_called_fn_addr,
                   ds, raised, pc, queued, processed, nseeds, twin, fd, stream, memory>>

SpecProperty == InitLib /\ [][DeserializeProperty]_vars

\* the positions in reads at which the field is read
ReadsOf(reads, field) == {i \in 1..Len(reads) : reads[i].field = field}

\* C27: in a parsed PropertyParams, ArrayDim is read exactly once: as i32
\* right after ObjectFlags when the version is below 5.3, as u16 right
\* after the Setter and Getter pointers from 5.3 on; the Setter and Getter
\* pointers are read exactly from 5.1 on; Offset is read for every kind but
\* Bool, as u32 below 5.3 and as u16 from 5.3 on; and the values are those
\* of the bytes at the place of the read in that format.
C27_PropertyLayout ==
    (call.op = "PropertyParams.deserialize" /\ call.ret.exc = "None") =>
        LET v == call.arg.version
            mem == call.arg.mem
            reads == call.ret.reads
            below_5_3 == v[1] < 5 \/ (v[1] = 5 /\ v[2] < 3)
            from_5_1 == v[1] > 5 \/ (v[1] = 5 /\ v[2] >= 1)
            lo(p) == ByteAt(mem, p) + 256 * ByteAt(mem, p + 1)
        IN  /\ Cardinality(ReadsOf(reads, "ArrayDim")) = 1
            /\ \A i \in ReadsOf(reads, "ArrayDim") :
                  IF below_5_3
                  THEN /\ reads[i].fmt = "s32" /\ reads[i - 1].field = "ObjectFlags"
                       /\ reads[i].value = lo(reads[i].pos) + 65536 * ByteAt(mem, reads[i].pos + 2)
                            + 16777216 * (IF mem.top = 255 THEN -1 ELSE mem.top)
                  ELSE /\ reads[i].fmt = "u16" /\ reads[i - 1].field = "GetterFunc_ptr"
                       /\ reads[i - 2].field = "SetterFunc_ptr"
                       /\ reads[i].value = lo(reads[i].pos)
            /\ from_5_1 <=> ReadsOf(reads, "SetterFunc_ptr") # {}
            /\ from_5_1 <=> ReadsOf(reads, "GetterFunc_ptr") # {}
            /\ Cardinality(ReadsOf(reads, "Offset")) = (IF mem.kind = Bool THEN 0 ELSE 1)
            /\ \A i \in ReadsOf(reads, "Offset") :
                  /\ reads[i].fmt = (IF below_5_3 THEN "u32" ELSE "u16")
                  /\ reads[i].value = lo(reads[i].pos)
                        + (IF below_5_3 THEN 65536 * ByteAt(mem, reads[i].pos + 2) ELSE 0)

\* version 5.3.0: ArrayDim is the u16 at offset 48, Offset the u16 at 50
C27_Witness ==
    /\ call.op = "PropertyParams.deserialize"
    /\ call.arg.version = <<5, 3, 0>>
    /\ call.arg.mem.fill = 255 /\ call.arg.mem.top = 255
    /\ \E i \in 1..Len(call.ret.reads) :
          /\ call.ret.reads[i].field = "ArrayDim" /\ call.ret.reads[i].fmt = "u16"
          /\ call.ret.reads[i].pos = 48 /\ call.ret.reads[i].value = 65535
          /\ i < Len(call.ret.reads)
          /\ call.ret.reads[i + 1].field = "Offset" /\ call.ret.reads[i + 1].fmt = "u16"
          /\ call.ret.reads[i + 1].pos = 50 /\ call.ret.reads[i + 1].value = 255

\* the same bytes under version 5.0.0: ArrayDim is the i32 at offset 32,
\* here -1, Offset the u32 at 36
C27_WitnessOlder ==
    /\ call.op = "PropertyParams.deserialize"
    /\ call.arg.version = <<5, 0, 0>>
    /\ call.arg.mem.fill = 255 /\ call.arg.mem.top = 255
    /\ \E i \in 1..Len(call.ret.reads) :
          /\ call.ret.reads[i].field = "ArrayDim" /\ call.ret.reads[i].fmt = "s32"
          /\ call.ret.reads[i].pos = 32 /\ call.ret.reads[i].value = -1
          /\ i < Len(call.ret.reads)
          /\ call.ret.reads[i + 1].field = "Offset" /\ call.ret.reads[i + 1].fmt = "u32"
          /\ call.ret.reads[i + 1].pos = 36 /\ call.ret.reads[i + 1].value = 16777215

\* ------------------------------------------------------------ property explorer
\* Byte, Int, Bool, SoftClass, WeakObject, LazyObject, SoftObject, Class,
\* Object, Interface, Delegate, the two multicast delegates, Enum
ExploredKinds == {0, 3, 12, 13, 14, 15, 16, 17, 18, 19, 26, 27, 28, 30}

\* explore_PropertyParams applied to one parsed record
ExploreProperty ==
    /\ call.op = "init"
    /\ \E kind \in ExploredKinds, name \in {0, 1}, notify \in {0, 1}, first \in {0, 2},
          second \in {0, 3} :
          call' = [op |-> "explore_PropertyParams",
                   arg |-> <<name, notify, kind, first, second>>,
                   ret |-> explore_PropertyParams(Env, <<name, notify, kind, first, second>>)]
    /\ UNCHANGED <<code, image, cache_by_fn_addr, cache_by_struct_addr, cache_by_called_fn_addr,
                   ds, raised, pc, queued, processed, nseeds, twin, fd, stream, memory>>

SpecExplore == InitLib /\ [][ExploreProperty]_vars

\* the discoveries the explorer yields after the two strings
FollowUps(ret) == {ret.discoveries[i] : i \in 3..Len(ret.discoveries)}

\* C28: the explorer of a property follows the pointer of its kind: for
\* Object, WeakObject, LazyObject and SoftObject a function discovery at
\* ClassFunc_ptr with the tolerant parser; for Byte and Enum a ZConstruct
\* discovery at EnumFunc_ptr with hint Enum; for Class and SoftClass with
\* hint Class; for the three delegate kinds at SignatureFunctionFunc_ptr
\* with hint Function; for Interface at InterfaceClassFunc_ptr with the
\* tolerant parser; for Bool nothing.
C28_PropertyFollowUps ==
    call.op = "explore_PropertyParams" =>
        LET k == PropertyKindName(call.arg[3])
            first == call.arg[4]
            second == call.arg[5]
            follow == FollowUps(call.ret)
        IN  /\ k \in {"Object", "WeakObject", "LazyObject", "SoftObject"} =>
                  follow = {Tolerant(first)}
            /\ k \in {"Byte", "Enum"} => follow = {ZConstructFunctionDiscovery(first, "Enum")}
            /\ k = "Class" => follow = {ZConstructFunctionDiscovery(first, "Class"),
                                        ZConstructFunctionDiscovery(second, "Class")}
            /\ k = "SoftClass" => follow = {ZConstructFunctionDiscovery(first, "Class")}
            /\ k \in {"Delegate", "InlineMulticastDelegate", "SparseMulticastDelegate"} =>
                  follow = {ZConstructFunctionDiscovery(first, "Function")}
            /\ k = "Interface" => follow = {Tolerant(first)}
            /\ k = "Bool" => follow = {}

\* an Object property with a ClassFunc_ptr, explored: nothing follows the
\* two strings
C28_Witness ==
    /\ call.op = "explore_PropertyParams"
    /\ PropertyKindName(call.arg[3]) = "Object"
    /\ call.arg[4] # 0
    /\ Len(call.ret.discoveries) = 2

\* ------------------------------------------------------------ argument marshalling
MaxInsts == 3

\* ARG_REGS, line 136
ARG_REGS == <<"RCX", "RDX", "R8", "R9">>
ArgRegIndex(reg) == (CHOOSE i \in 1..4 : ARG_REGS[i] = reg) - 1
IsArgReg(reg) == \E i \in 1..4 : ARG_REGS[i] = reg

\* 2^64 exceeds the numbers of the checker; Wrap stands for it. Every
\* displacement, stack size and slot of the model is below 2^17 in size, so
\* the signs and the order of the slots are those of the 64-bit arithmetic.
Wrap == 2^30

\* UsedMemory.displacement: the displacement as an unsigned 64-bit number
displacement(disp) == IF disp < 0 THEN disp + Wrap ELSE disp
\* UsedMemory.displacement_i64: the displacement as a signed number
displacement_i64(disp) == disp

Inst(c, reg, base, disp, value) ==
    [code |-> c, reg |-> reg, base |-> base, disp |-> disp, value |-> value]

\* the set-up instructions of the model, by the instruction codes of the
\* decoder; reg is the register written, for a store the register stored
MarshalInsts ==
    {Inst("LEA_R64_M", "RCX", "", 0, 11), Inst("LEA_R64_M", "RDX", "", 0, 12),
     Inst("MOV_R64_IMM64", "R8", "", 0, 13), Inst("MOV_R64_IMM64", "R9", "", 0, 14),
     Inst("MOV_R64_IMM64", "RAX", "", 0, 15), Inst("LEA_R64_M", "RAX", "", 0, 20),
     Inst("MOV_RM64_R64", "RAX", "R11", -24, 0), Inst("MOV_RM64_R64", "RAX", "RSP", 40, 0),
     Inst("MOV_RM64_IMM32", "", "R11", -32, 16), Inst("MOV_RM64_IMM32", "", "R11", 8, 19),
     Inst("MOV_RM32_IMM32", "", "R11", -40, 17), Inst("MOV_RM32_IMM32", "", "RSP", 32, 18),
     Inst("NOP", "", "", 0, 0)}
CallInst == Inst("CALL_REL32_64", "", "", 0, 2)

Param(value, size, offset, at) == [value |-> value, size |-> size, offset |-> offset, at |-> at]

RECURSIVE InsertBySlot(_, _)
\* p goes behind every entry whose offset is not below its own
InsertBySlot(sorted, p) ==
    IF sorted = <<>> THEN <<p>>
    ELSE IF sorted[1].offset >= p.offset THEN <<sorted[1]>> \o InsertBySlot(Tail(sorted), p)
    ELSE <<p>> \o sorted

RECURSIVE SortBySlot(_, _)
\* parameters.sort(key=lambda x: x[2], reverse=True), a stable sort
SortBySlot(parameters, i) ==
    IF i = 0 THEN <<>>
    ELSE InsertBySlot(SortBySlot(parameters, i - 1), parameters[i])

RECURSIVE GatherFrom(_, _, _, _, _)
\* the while loop of gather_call_params, lines 156-243, at instruction i
\* with the register file regs and the parameters collected so far
GatherFrom(insts, stack_size, i, regs, parameters) ==
    IF i > Len(insts) THEN [exc |-> "ValueError:OutsideStream", fn |-> 0, parameters |-> parameters]
    ELSE IF insts[i].code = "CALL_REL32_64"
    THEN [exc |-> "None", fn |-> insts[i].value, parameters |-> parameters]
    ELSE IF insts[i].code = "LEA_R64_M"
    THEN IF IsArgReg(insts[i].reg)
         THEN GatherFrom(insts, stack_size, i + 1, [regs EXCEPT ![insts[i].reg] = insts[i].value],
                         Append(parameters, Param(insts[i].value, 4,
                                                  65535 - ArgRegIndex(insts[i].reg), i)))
         ELSE IF \/ insts[i].reg # "RAX" \/ i + 1 > Len(insts)
                 \/ insts[i + 1].code # "MOV_RM64_R64" \/ insts[i + 1].base # "R11"
                 \/ insts[i + 1].reg # "RAX"
         THEN [exc |-> "AssertionError", fn |-> 0, parameters |-> parameters]
         ELSE GatherFrom(insts, stack_size, i + 2, [regs EXCEPT !["RAX"] = insts[i].value],
                         Append(parameters, Param(insts[i].value, 4,
                                                  -displacement_i64(insts[i + 1].disp), i + 1)))
    ELSE IF insts[i].code = "MOV_RM64_IMM32"
    THEN IF insts[i].base # "R11"
         THEN [exc |-> "AssertionError", fn |-> 0, parameters |-> parameters]
         ELSE GatherFrom(insts, stack_size, i + 1, regs,
                         Append(parameters, Param(insts[i].value, 8,
                                                  -displacement_i64(insts[i].disp), i)))
    ELSE IF insts[i].code = "MOV_RM32_IMM32"
    THEN IF insts[i].base = "R11"
         THEN GatherFrom(insts, stack_size, i + 1, regs,
                         Append(parameters, Param(insts[i].value, 4,
                                                  -displacement(insts[i].disp), i)))
         ELSE IF insts[i].base = "RSP"
         THEN GatherFrom(insts, stack_size, i + 1, regs,
                         Append(parameters, Param(insts[i].value, 4,
                                                  stack_size - displacement(insts[i].disp), i)))
         ELSE [exc |-> "AssertionError", fn |-> 0, parameters |-> parameters]
    ELSE IF insts[i].code = "MOV_RM64_R64"
    THEN IF insts[i].base = "R11"
         THEN GatherFrom(insts, stack_size, i + 1, regs,
                         Append(parameters, Param(regs[insts[i].reg], 8,
                                                  -displacement_i64(insts[i].disp), i)))
         ELSE IF insts[i].base = "RSP"
         THEN GatherFrom(insts, stack_size, i + 1, regs,
                         Append(parameters, Param(regs[insts[i].reg], 8,
                                                  stack_size - displacement_i64(insts[i].disp), i)))
         ELSE [exc |-> "AssertionError", fn |-> 0, parameters |-> parameters]
    ELSE IF insts[i].code = "MOV_R64_IMM64"
    THEN IF IsArgReg(insts[i].reg)
         THEN GatherFrom(insts, stack_size, i + 1, regs,
                         Append(parameters, Param(insts[i].value, 8,
                                                  65535 - ArgRegIndex(insts[i].reg), i)))
         ELSE GatherFrom(insts, stack_size, i + 1, [regs EXCEPT ![insts[i].reg] = insts[i].value],
                         parameters)
    ELSE [exc |-> "AssertionError", fn |-> 0, parameters |-> parameters]

\* gather_call_params, lines 139-253, without known registers: the values
\* in argument order, and the parameters as collected before the sort
gather_call_params(insts, stack_size) ==
    LET g == GatherFrom(insts, stack_size, 1,
                        [r \in {"RAX", "RCX", "RDX", "R8", "R9"} |-> 0], <<>>)
        sorted == SortBySlot(g.parameters, Len(g.parameters))
        kept == SelectSeq(sorted, LAMBDA p : p.offset >= 0)
    IN  [exc |-> g.exc, fn |-> g.fn, collected |-> g.parameters,
         values |-> [k \in 1..Len(kept) |-> kept[k].value]]

GatherCallParams ==
    /\ call.op = "init"
    /\ \E insts \in SeqsUpTo(MarshalInsts, MaxInsts), stack_size \in {40, 56} :
          call' = [op |-> "gather_call_params",
                   arg |-> [insts |-> Append(insts, CallInst), stack_size |-> stack_size],
                   ret |-> gather_call_params(Append(insts, CallInst), stack_size)]
    /\ UNCHANGED <<code, image, cache_by_fn_addr, cache_by_struct_addr, cache_by_called_fn_addr,
                   ds, raised, pc, queued, processed, nseeds, twin, fd, stream, memory>>

SpecMarshal == InitLib /\ [][GatherCallParams]_vars

\* the slot of the argument an instruction sets up: 0xFFFF, 0xFFFE, 0xFFFD,
\* 0xFFFC for RCX, RDX, R8, R9, -disp for a store through R11 and
\* stack_size - disp for a store through RSP, disp signed
SlotOf(inst, stack_size) ==
    IF inst.base = "R11" THEN -inst.disp
    ELSE IF inst.base = "RSP" THEN stack_size - inst.disp
    ELSE 65535 - ArgRegIndex(inst.reg)

\* C29: the values returned are the values collected, sorted by descending
\* slot and without those of negative slot, whatever the order of the
\* set-up instructions: the register arguments first, RCX, RDX, R8, R9,
\* then the stack arguments by ascending address; the slot of a store
\* through R11 is -disp and of a store through RSP stack_size - disp, disp
\* signed, for the dword and the qword stores.
C29_ArgumentOrder ==
    (call.op = "gather_call_params" /\ call.ret.exc = "None") =>
        LET insts == call.arg.insts
            slot(p) == SlotOf(insts[p.at], call.arg.stack_size)
            kept == SelectSeq(call.ret.collected, LAMBDA p : slot(p) >= 0)
            n == Len(kept)
        IN  /\ Len(call.ret.values) = n
            /\ \E order \in [1..n -> 1..n] :
                  /\ \A i \in 1..n, j \in 1..n : order[i] = order[j] => i = j
                  /\ \A i \in 1..n : call.ret.values[i] = kept[order[i]].value
                  /\ \A i \in 1..n, j \in 1..n :
                        i < j => slot(kept[order[i]]) >= slot(kept[order[j]])

\* a dword store through [R11-0x28] before the call: its value is not
\* among the values returned
C29_Witness ==
    /\ call.op = "gather_call_params"
    /\ call.ret.exc = "None"
    /\ \E i \in 1..Len(call.arg.insts) :
          call.arg.insts[i] = Inst("MOV_RM32_IMM32", "", "R11", -40, 17)
    /\ \A k \in 1..Len(call.ret.values) : call.ret.values[k] # 17

\* ------------------------------------------------------------ seed validators
\* # The maximum number of entries in any struct array we allow for validation
MAX_ENTRIES == 8192

\* Image.get_section_name_from_rva on an image whose .text holds TextRvas
\* and whose .rdata holds DataRvas: None below the image base, ValueError
\* outside every section
get_section_name_from_rva(rva) ==
    IF rva = 0 THEN "None"
    ELSE IF rva \in TextRvas THEN ".text"
    ELSE IF rva \in DataRvas THEN ".rdata"
    ELSE "ValueError"

\* null, an RVA of .text, an RVA of .rdata, an RVA of no section
Pointers == {0, 1, 3}
WildPointers == Pointers \cup {99}
Counts == {-1, 0, MAX_ENTRIES, MAX_ENTRIES + 1}
Sizes == {16777216, 16777217}
Aligns == {4096, 4097}

\* _validate_package_params, lines 146-152
validate_package_params(struct) ==
    /\ get_section_name_from_rva(struct.NameUTF8) = ".rdata"
    /\ struct.NumSingletons >= 0
    /\ struct.NumSingletons <= MAX_ENTRIES
    /\ struct.NumSingletons > 0 =>
          get_section_name_from_rva(struct.SingletonFuncArrayFn) = ".rdata"

\* _validate_class_params, lines 154-173
validate_class_params(struct) ==
    /\ get_section_name_from_rva(struct.ClassNoRegisterFunc) = ".text"
    /\ get_section_name_from_rva(struct.CppClassInfo) = ".rdata"
    /\ struct.ClassConfigNameUTF8 # 0 =>
          get_section_name_from_rva(struct.ClassConfigNameUTF8) = ".rdata"
    /\ struct.NumFunctions >= 0
    /\ struct.NumFunctions <= MAX_ENTRIES
    /\ struct.NumProperties >= 0
    /\ struct.NumProperties <= MAX_ENTRIES
    /\ struct.NumDependencySingletons >= 0
    /\ struct.NumDependencySingletons <= MAX_ENTRIES
    /\ struct.NumFunctions > 0 =>
          get_section_name_from_rva(struct.FunctionLinkArray) = ".rdata"
    /\ struct.NumProperties > 0 =>
          get_section_name_from_rva(struct.PropertyArray) = ".rdata"
    /\ struct.NumDependencySingletons > 0 =>
          get_section_name_from_rva(struct.DependencySingletonFuncArray) = ".rdata"

\* _validate_struct_params, lines 175-189
validate_struct_params(struct) ==
    /\ struct.OuterFunc # 0 => get_section_name_from_rva(struct.OuterFunc) = ".text"
    /\ struct.SuperFunc # 0 => get_section_name_from_rva(struct.SuperFunc) = ".text"
    /\ struct.StructOpsFunc # 0 => get_section_name_from_rva(struct.StructOpsFunc) = ".text"
    /\ get_section_name_from_rva(struct.NameUTF8) = ".rdata"
    /\ struct.NumProperties >= 0
    /\ struct.NumProperties <= MAX_ENTRIES
    /\ struct.NumProperties > 0 =>
          get_section_name_from_rva(struct.PropertyArray) = ".rdata"
    /\ struct.SizeOf <= 16777216
    /\ struct.AlignOf <= 4096

\* _validate_enum_params, lines 191-202
validate_enum_params(struct) ==
    /\ struct.OuterFunc # 0 => get_section_name_from_rva(struct.OuterFunc) = ".text"
    /\ struct.DisplayNameFn # 0 => get_section_name_from_rva(struct.DisplayNameFn) = ".text"
    /\ get_section_name_from_rva(struct.NameUTF8) = ".rdata"
    /\ get_section_name_from_rva(struct.CppTypeUTF8) = ".rdata"
    /\ struct.NumEnumerators >= 0
    /\ struct.NumEnumerators <= MAX_ENTRIES
    /\ struct.NumEnumerators > 0 =>
          get_section_name_from_rva(struct.EnumeratorParams) = ".rdata"

\* _validate_function_params, lines 204-219
validate_function_params(struct) ==
    /\ struct.OuterFunc # 0 => get_section_name_from_rva(struct.OuterFunc) = ".text"
    /\ struct.SuperFunc # 0 => get_section_name_from_rva(struct.SuperFunc) = ".text"
    /\ get_section_name_from_rva(struct.NameUTF8) = ".rdata"
    /\ struct.OwningClassName # 0 =>
          get_section_name_from_rva(struct.OwningClassName) = ".rdata"
    /\ struct.DelegateName # 0 => get_section_name_from_rva(struct.DelegateName) = ".rdata"
    /\ struct.StructureSize <= 16777216
    /\ struct.NumProperties >= 0
    /\ struct.NumProperties <= MAX_ENTRIES
    /\ struct.NumProperties > 0 =>
          get_section_name_from_rva(struct.PropertyArray) = ".rdata"

\* one validator applied to one candidate record
Validated(type, struct, accepted) ==
    [op |-> "validate", arg |-> [type |-> type, struct |-> struct], ret |-> accepted]

ValidatePackage ==
    /\ call.op = "init"
    /\ \E name \in WildPointers, array \in WildPointers, count \in Counts :
            call' = Validated("FPackageParams",
                      [NameUTF8 |-> name, SingletonFuncArrayFn |-> array, NumSingletons |-> count],
                      validate_package_params(
                          [NameUTF8 |-> name, SingletonFuncArrayFn |-> array,
                           NumSingletons |-> count]))
    /\ UNCHANGED <<code, image, cache_by_fn_addr, cache_by_struct_addr, cache_by_called_fn_addr,
                   ds, raised, pc, queued, processed, nseeds, twin, fd, stream, memory>>

ValidateClass ==
    /\ call.op = "init"
    /\ \E fn \in Pointers, info \in Pointers, name \in Pointers, a1 \in Pointers, a2 \in Pointers,
           a3 \in Pointers, n1 \in {-1, 0, MAX_ENTRIES + 1}, n2 \in {0, MAX_ENTRIES},
           n3 \in {0, MAX_ENTRIES + 1} :
            call' = Validated("FClassParams",
                      [ClassNoRegisterFunc |-> fn, CppClassInfo |-> info,
                       ClassConfigNameUTF8 |-> name, DependencySingletonFuncArray |-> a1,
                       FunctionLinkArray |-> a2, PropertyArray |-> a3,
                       NumDependencySingletons |-> n1, NumFunctions |-> n2, NumProperties |-> n3],
                      validate_class_params(
                          [ClassNoRegisterFunc |-> fn, CppClassInfo |-> info,
                           ClassConfigNameUTF8 |-> name, DependencySingletonFuncArray |-> a1,
                           FunctionLinkArray |-> a2, PropertyArray |-> a3,
                           NumDependencySingletons |-> n1, NumFunctions |-> n2,
                           NumProperties |-> n3]))
    /\ UNCHANGED <<code, image, cache_by_fn_addr, cache_by_struct_addr, cache_by_called_fn_addr,
                   ds, raised, pc, queued, processed, nseeds, twin, fd, stream, memory>>

ValidateStruct ==
    /\ call.op = "init"
    /\ \E f1 \in Pointers, f2 \in Pointers, f3 \in Pointers, name \in Pointers, array \in Pointers,
           count \in Counts, size \in Sizes, alignment \in Aligns :
            call' = Validated("FStructParams",
                      [OuterFunc |-> f1, SuperFunc |-> f2, StructOpsFunc |-> f3, NameUTF8 |-> name,
                       SizeOf |-> size, AlignOf |-> alignment, PropertyArray |-> array,
                       NumProperties |-> count],
                      validate_struct_params(
                          [OuterFunc |-> f1, SuperFunc |-> f2, StructOpsFunc |-> f3,
                           NameUTF8 |-> name, SizeOf |-> size, AlignOf |-> alignment,
                           PropertyArray |-> array, NumProperties |-> count]))
    /\ UNCHANGED <<code, image, cache_by_fn_addr, cache_by_struct_addr, cache_by_called_fn_addr,
                   ds, raised, pc, queued, processed, nseeds, twin, fd, stream, memory>>

ValidateEnum ==
    /\ call.op = "init"
    /\ \E f1 \in Pointers, f2 \in Pointers, name \in Pointers, cpp \in Pointers, array \in Pointers,
           count \in Counts :
            call' = Validated("FEnumParams",
                      [OuterFunc |-> f1, DisplayNameFn |-> f2, NameUTF8 |-> name,
                       CppTypeUTF8 |-> cpp, EnumeratorParams |-> array, NumEnumerators |-> count],
                      validate_enum_params(
                          [OuterFunc |-> f1, DisplayNameFn |-> f2, NameUTF8 |-> name,
                           CppTypeUTF8 |-> cpp, EnumeratorParams |-> array,
                           NumEnumerators |-> count]))
    /\ UNCHANGED <<code, image, cache_by_fn_addr, cache_by_struct_addr, cache_by_called_fn_addr,
                   ds, raised, pc, queued, processed, nseeds, twin, fd, stream, memory>>

ValidateFunction ==
    /\ call.op = "init"
    /\ \E f1 \in Pointers, f2 \in Pointers, name \in Pointers, owner \in Pointers,
           delegate \in Pointers, array \in Pointers, count \in Counts, size \in Sizes :
            call' = Validated("FFunctionParams",
                      [OuterFunc |-> f1, SuperFunc |-> f2, NameUTF8 |-> name,
                       OwningClassName |-> owner, DelegateName |-> delegate,
                       StructureSize |-> size, PropertyArray |-> array, NumProperties |-> count],
                      validate_function_params(
                          [OuterFunc |-> f1, SuperFunc |-> f2, NameUTF8 |-> name,
                           OwningClassName |-> owner, DelegateName |-> delegate,
                           StructureSize |-> size, PropertyArray |-> array,
                           NumProperties |-> count]))
    /\ UNCHANGED <<code, image, cache_by_fn_addr, cache_by_struct_addr, cache_by_called_fn_addr,
                   ds, raised, pc, queued, processed, nseeds, twin, fd, stream, memory>>

NextValidate ==
    \/ ValidatePackage
    \/ ValidateClass
    \/ ValidateStruct
    \/ ValidateEnum
    \/ ValidateFunction

SpecValidate == InitLib /\ [][NextValidate]_vars

StringFields == {"NameUTF8", "CppTypeUTF8", "ClassConfigNameUTF8", "OwningClassName",
                 "DelegateName"}
FunctionFields == {"OuterFunc", "SuperFunc", "StructOpsFunc", "DisplayNameFn",
                   "ClassNoRegisterFunc"}
\* an array pointer field and the field of its count
ArrayFields == {<<"SingletonFuncArrayFn", "NumSingletons">>,
                <<"DependencySingletonFuncArray", "NumDependencySingletons">>,
                <<"FunctionLinkArray", "NumFunctions">>,
                <<"PropertyArray", "NumProperties">>,
                <<"EnumeratorParams", "NumEnumerators">>}

\* C30: a validator accepts a record exactly when every string pointer of
\* the record is 0 or in .rdata, every function pointer 0 or in .text,
\* every array pointer 0 or in .rdata with its count in 0..0x2000, and the
\* limits of size and alignment hold; so a null name is no reason to
\* reject, and an array pointer outside .rdata is one even with count 0.
C30_ValidatorAccepts ==
    call.op = "validate" =>
        LET struct == call.arg.struct
            has(f) == f \in DOMAIN struct
        IN  call.ret <=>
              /\ \A f \in StringFields : has(f) =>
                    struct[f] = 0 \/ get_section_name_from_rva(struct[f]) = ".rdata"
              /\ \A f \in FunctionFields : has(f) =>
                    struct[f] = 0 \/ get_section_name_from_rva(struct[f]) = ".text"
              /\ \A a \in ArrayFields : has(a[1]) =>
                    /\ struct[a[1]] = 0 \/ get_section_name_from_rva(struct[a[1]]) = ".rdata"
                    /\ struct[a[2]] >= 0 /\ struct[a[2]] <= 8192
              /\ has("SizeOf") => struct.SizeOf <= 16777216
              /\ has("AlignOf") => struct.AlignOf <= 4096
              /\ has("StructureSize") => struct.StructureSize <= 16777216

\* a package record with a null name and nothing else amiss, rejected
C30_Witness ==
    /\ call.op = "validate"
    /\ call.arg.type = "FPackageParams"
    /\ call.arg.struct = [NameUTF8 |-> 0, SingletonFuncArrayFn |-> 3, NumSingletons |-> 0]
    /\ ~call.ret

\* an enum record whose array pointer lies in .text, with count 0, accepted
C30_WitnessArray ==
    /\ call.op = "validate"
    /\ call.arg.type = "FEnumParams"
    /\ call.arg.struct.EnumeratorParams = 1 /\ call.arg.struct.NumEnumerators = 0
    /\ call.ret


=============================================================================
